---- MODULE Spec2Model ----
(***************************************************************************)
(* A model of the osm2svg4opcd vector path pipeline:                       *)
(*   osm2svg_v5.py      stage 1, stroke-to-outline and feature collection  *)
(*   svg_points2path.py stage 2, auto-smooth curve fitting                 *)
(*   fix_bunker_inset.py stage 3, outset correction of bunker paths        *)
(*                                                                         *)
(* Numbers.  The program computes in floating point.  The model computes   *)
(* in exact rational arithmetic, a rational being a pair <<n, d>> with     *)
(* d > 0 in lowest terms, and the inputs are integer points whose          *)
(* consecutive distances are whole numbers (axis-parallel and 3-4-5        *)
(* steps), so that every math.sqrt / abs of the program is exact.  A unit  *)
(* vector with irrational components (the tangent D / abs(D)) is kept as   *)
(* the primitive integer vector of its direction.                          *)
(***************************************************************************)
EXTENDS Integers, Sequences, FiniteSets, TLC

VARIABLES
    stage,          \* which part of the pipeline this run exercises
    pc,             \* position of that part: "start", "loop", "done", ...
    stroke_in,      \* arguments of convert_stroke_to_path
    path_d,         \* its return value, a list of path commands
    way_list,       \* main: the <way> elements met so far, in document order
    svg_features,   \* main: the collected features
    path_in,        \* apply_path_smoothing: the parsed path and its grid step
    smoothed,       \* result of smooth_path_segments on path_in
    resmoothed,     \* result of smooth_path_segments on smoothed
    ctl_in,         \* arguments of a get_auto_smooth_controls call
    ctl_out,        \* its return value
    relation_list,  \* main: the <relation> elements met so far, in document order
    outputFile,     \* main: what has been written to the output file
    input_svg,      \* fix_bunker_paths: the <path> elements of the input file
    tree,           \* fix_bunker_paths: the <path> elements of the parsed tree
    path_index,     \* fix_bunker_paths: number of <path> elements visited
    fixed_count,    \* fix_bunker_paths: its counter
    printed,        \* fix_bunker_paths: the lines printed so far
    paths_list_2d,  \* argument of clip_overlapping_paths
    clipped_polygons, \* its return value
    path_obj,       \* simplify_and_offset_path: the points of the parsed path
    sampled_points, \* simplify_and_offset_path: the ring given to pyclipper
    root,           \* convert_polylines_to_paths: the parsed tree
    converted       \* convert_polylines_to_paths: the tree it returns

\* the variables of main's relation loop and output
emitVars == <<relation_list, outputFile>>

\* the variables of fix_bunker_paths
fixVars == <<input_svg, tree, path_index, fixed_count, printed>>

\* the variables of clip_overlapping_paths
clipVars == <<paths_list_2d, clipped_polygons>>

\* the variables of the sampling step of simplify_and_offset_path
sampleVars == <<path_obj, sampled_points>>

\* the variables of convert_polylines_to_paths
polylineVars == <<root, converted>>

vars == <<stage, pc, stroke_in, path_d, way_list, svg_features,
          path_in, smoothed, resmoothed, ctl_in, ctl_out,
          emitVars, fixVars, clipVars, sampleVars, polylineVars>>

-----------------------------------------------------------------------------
(* Bounds of the model *)

MaxPoints == 4
MaxWays == 2
MaxRelations == 1
MaxSegs == 3
MaxSamples == 4
MaxChildren == 3
MaxNested == 1

-----------------------------------------------------------------------------
(* Exact arithmetic standing for the program's float arithmetic *)

Abs(i) == IF i < 0 THEN -i ELSE i

Sgn(i) == IF i < 0 THEN -1 ELSE IF i > 0 THEN 1 ELSE 0

RECURSIVE GCD(_, _)
GCD(a, b) == IF b = 0 THEN a ELSE GCD(b, a % b)

\* the rational n/d (d # 0) in lowest terms with a positive denominator
Rat(n, d) ==
    LET g == GCD(Abs(n), Abs(d))
        s == IF d < 0 THEN -1 ELSE 1
    IN  <<(s * n) \div g, (s * d) \div g>>

RInt(i) == <<i, 1>>
RAdd(a, b) == Rat(a[1] * b[2] + b[1] * a[2], a[2] * b[2])
RSub(a, b) == Rat(a[1] * b[2] - b[1] * a[2], a[2] * b[2])
RMul(a, b) == Rat(a[1] * b[1], a[2] * b[2])
RDiv(a, b) == Rat(a[1] * b[2], a[2] * b[1])
RNeg(a) == <<-a[1], a[2]>>
RLess(a, b) == a[1] * b[2] < b[1] * a[2]
RGeq(a, b) == ~RLess(a, b)
RZero == <<0, 1>>

\* math.sqrt / abs() of a whole number: exact on a perfect square, which is
\* what every input of the model gives it (the whole part otherwise)
Sqrt(n) == CHOOSE r \in 0..n : r * r <= n /\ n < (r + 1) * (r + 1)

IsSquare(n) == \E r \in 0..n : r * r = n

\* f"{x:.4f}": the nearest multiple of 1/10000 (a tie goes to the even one),
\* as a whole number of ten-thousandths
Fmt4(a) ==
    LET n == a[1] * 10000
        d == a[2]
        q == n \div d
        r == n % d
    IN  IF 2 * r < d THEN q
        ELSE IF 2 * r > d THEN q + 1
        ELSE IF q % 2 = 0 THEN q ELSE q + 1

FmtPoint(p) == <<Fmt4(p[1]), Fmt4(p[2])>>

\* an integer point as a point with rational coordinates
RPoint(p) == <<RInt(p[1]), RInt(p[2])>>

-----------------------------------------------------------------------------
(* Inputs: integer points, polylines with whole-number segment lengths *)

PointSet == {<<0, 0>>, <<10, 0>>, <<10, 10>>, <<0, 10>>, <<3, 4>>, <<6, 8>>}

Dist2(p, q) == (q[1] - p[1]) * (q[1] - p[1]) + (q[2] - p[2]) * (q[2] - p[2])

\* the point lists of n points of S whose consecutive distances are whole numbers
RECURSIVE WalksOn(_, _)
WalksOn(S, n) ==
    IF n = 0 THEN {<<>>}
    ELSE IF n = 1 THEN {<<p>> : p \in S}
    ELSE {Append(x[1], x[2]) :
            x \in {y \in WalksOn(S, n - 1) \X S :
                     IsSquare(Dist2(y[1][n - 1], y[2]))}}

Walks(n) == WalksOn(PointSet, n)

\* the closed square of the spec's test, closed the way a closed way is: its
\* first point repeated at the end
SquareClosed == <<<<0, 0>>, <<10, 0>>, <<10, 10>>, <<0, 10>>, <<0, 0>>>>

Polylines == UNION {Walks(n) : n \in 0..MaxPoints} \cup {SquareClosed}

-----------------------------------------------------------------------------
(* osm2svg_v5.py: geometry kernel *)

\* get_normal(p1, p2) -> (length, nx, ny)
get_normal(p1, p2) ==
    LET dx == p2[1] - p1[1]
        dy == p2[2] - p1[2]
        length == Sqrt(dx * dx + dy * dy)
    IN  IF length = 0 THEN [len |-> 0, nx |-> RZero, ny |-> RZero]
        ELSE [len |-> length, nx |-> Rat(-dy, length), ny |-> Rat(dx, length)]

\* intersect_lines(p1, p2, p3, p4) on rational points; "None" when den == 0
intersect_lines(p1, p2, p3, p4) ==
    LET x1 == p1[1]  y1 == p1[2]
        x2 == p2[1]  y2 == p2[2]
        x3 == p3[1]  y3 == p3[2]
        x4 == p4[1]  y4 == p4[2]
        den == RSub(RMul(RSub(x1, x2), RSub(y3, y4)),
                    RMul(RSub(y1, y2), RSub(x3, x4)))
        t == RDiv(RSub(RMul(RSub(x1, x3), RSub(y3, y4)),
                       RMul(RSub(y1, y3), RSub(x3, x4))), den)
    IN  IF den = RZero THEN <<>>
        ELSE <<RAdd(x1, RMul(t, RSub(x2, x1))), RAdd(y1, RMul(t, RSub(y2, y1)))>>

None == <<>>

-----------------------------------------------------------------------------
(* osm2svg_v5.py: convert_stroke_to_path *)

half_width_doubled(stroke_width) == stroke_width

\* half_width = stroke_width / 2.0
half_width(stroke_width) == RDiv(stroke_width, RInt(2))

\* cap_style = style_attrs.get('stroke-linecap', 'butt').lower()
cap_style(style_attrs) ==
    IF "stroke-linecap" \in DOMAIN style_attrs
    THEN style_attrs["stroke-linecap"]
    ELSE "butt"

\* p + k * (nx, ny) * w, the shift used for rails and caps
Shift(p, nx, ny, w, k) ==
    <<RAdd(p[1], RMul(RInt(k), RMul(nx, w))), RAdd(p[2], RMul(RInt(k), RMul(ny, w)))>>

\* step 1: one record per segment, with its forward and reverse rail
segments_data(points, hw) ==
    [i \in 1..(Len(points) - 1) |->
        LET p1 == points[i]
            p2 == points[i + 1]
            n == get_normal(p1, p2)
        IN  [len |-> n.len, nx |-> n.nx, ny |-> n.ny,
             f_line |-> <<Shift(RPoint(p1), n.nx, n.ny, hw, 1),
                          Shift(RPoint(p2), n.nx, n.ny, hw, 1)>>,
             r_line |-> <<Shift(RPoint(p1), n.nx, n.ny, hw, -1),
                          Shift(RPoint(p2), n.nx, n.ny, hw, -1)>>]]

\* step 2: the start cap, <<start_f, start_r>>
start_cap(points, sd, hw, cap) ==
    LET seg0 == sd[1]
        n == get_normal(points[2], points[1])
    IN  IF cap = "square"
        THEN <<Shift(seg0.f_line[1], n.nx, n.ny, hw, 1),
               Shift(seg0.r_line[1], n.nx, n.ny, hw, 1)>>
        ELSE <<seg0.f_line[1], seg0.r_line[1]>>

joint_strict(seg_in, seg_out, straight_threshold) ==
    LET dot == RAdd(RMul(seg_in.nx, seg_out.nx), RMul(seg_in.ny, seg_out.ny))
        I_f == intersect_lines(seg_in.f_line[1], seg_in.f_line[2],
                               seg_out.f_line[1], seg_out.f_line[2])
        I_r == intersect_lines(seg_in.r_line[1], seg_in.r_line[2],
                               seg_out.r_line[1], seg_out.r_line[2])
    IN  IF RLess(straight_threshold, dot)
        THEN <<seg_out.f_line[1], seg_out.r_line[1]>>
        ELSE IF I_f = None \/ I_r = None
        THEN <<seg_out.f_line[1], seg_out.r_line[1]>>
        ELSE <<I_f, I_r>>

\* step 3, one corner: <<current_f_point, current_r_point>>
joint(seg_in, seg_out, straight_threshold) ==
    LET dot == RAdd(RMul(seg_in.nx, seg_out.nx), RMul(seg_in.ny, seg_out.ny))
        I_f == intersect_lines(seg_in.f_line[1], seg_in.f_line[2],
                               seg_out.f_line[1], seg_out.f_line[2])
        I_r == intersect_lines(seg_in.r_line[1], seg_in.r_line[2],
                               seg_out.r_line[1], seg_out.r_line[2])
    IN  IF RGeq(dot, straight_threshold)
        THEN <<seg_out.f_line[1], seg_out.r_line[1]>>
        ELSE IF I_f = None \/ I_r = None
        THEN <<seg_out.f_line[1], seg_out.r_line[1]>>
        ELSE <<I_f, I_r>>

\* step 3, the loop: the joints of points 1 .. n-2 (0-based), in loop order
joints(sd, straight_threshold) ==
    [i \in 1..(Len(sd) - 1) |-> joint(sd[i], sd[i + 1], straight_threshold)]

\* step 4: the end cap, <<end_f, end_r>>
end_cap(points, sd, hw, cap) ==
    LET m == Len(points)
        seg_last == sd[m - 1]
        n == get_normal(points[m - 1], points[m])
    IN  IF cap = "square"
        THEN <<Shift(seg_last.f_line[2], n.nx, n.ny, hw, 1),
               Shift(seg_last.r_line[2], n.nx, n.ny, hw, 1)>>
        ELSE <<seg_last.f_line[2], seg_last.r_line[2]>>

\* one formatted path command, f"M {x:.4f} {y:.4f}" / f"L {x:.4f} {y:.4f}"
Cmd(c, p) == [cmd |-> c, x |-> Fmt4(p[1]), y |-> Fmt4(p[2])]

CmdZ == [cmd |-> "Z"]

\* forward_path after steps 2-4: appended in loop order
forward_path(start, js, end) ==
    <<Cmd("M", start[1])>>
    \o [i \in 1..Len(js) |-> Cmd("L", js[i][1])]
    \o <<Cmd("L", end[1])>>

reverse_path_appended(start, js, end) ==
    <<Cmd("L", start[2])>>
    \o [i \in 1..Len(js) |-> Cmd("L", js[i][2])]
    \o <<Cmd("L", end[2])>>

\* reverse_path after steps 2-4: every later vertex is inserted at index 0
reverse_path(start, js, end) ==
    <<Cmd("L", end[2])>>
    \o [i \in 1..Len(js) |-> Cmd("L", js[Len(js) + 1 - i][2])]
    \o <<Cmd("L", start[2])>>

\* convert_stroke_to_path(points, stroke_width, style_attrs, corner_radius,
\* straight_threshold); the empty list stands for the return value ""
convert_stroke_to_path(points, stroke_width, style_attrs, straight_threshold) ==
    IF Len(points) < 2 THEN <<>>
    ELSE LET hw == half_width(stroke_width)
             cap == cap_style(style_attrs)
             sd == segments_data(points, hw)
             start == start_cap(points, sd, hw, cap)
             js == joints(sd, straight_threshold)
             end == end_cap(points, sd, hw, cap)
         IN  forward_path(start, js, end) \o reverse_path(start, js, end) \o <<CmdZ>>

-----------------------------------------------------------------------------
(* The stroke-to-outline run: one call of convert_stroke_to_path *)

Idle == <<>>

\* the variables of the parts a run does not exercise
IdleEmit == relation_list = Idle /\ outputFile = Idle

IdleFix ==
    /\ input_svg = Idle /\ tree = Idle /\ path_index = Idle
    /\ fixed_count = Idle /\ printed = Idle

IdleClip == paths_list_2d = Idle /\ clipped_polygons = Idle

IdleSample == path_obj = Idle /\ sampled_points = Idle

IdlePolylines == root = Idle /\ converted = Idle

StrokeWidths == {RInt(1), RInt(2)}

StyleAttrs == {<<>>, [x \in {"stroke-linecap"} |-> "butt"],
               [x \in {"stroke-linecap"} |-> "square"]}

Thresholds == {RZero, Rat(999, 1000), RInt(1)}

InitStroke ==
    /\ stage = "stroke"
    /\ pc = "start"
    /\ stroke_in \in [points : Polylines, stroke_width : StrokeWidths,
                      style_attrs : StyleAttrs, straight_threshold : Thresholds]
    /\ path_d = <<>>
    /\ way_list = Idle /\ svg_features = Idle
    /\ path_in = Idle /\ smoothed = Idle /\ resmoothed = Idle
    /\ ctl_in = Idle /\ ctl_out = Idle
    /\ IdleEmit /\ IdleFix /\ IdleClip
    /\ IdleSample /\ IdlePolylines

ConvertStroke ==
    /\ stage = "stroke"
    /\ pc = "start"
    /\ path_d' = convert_stroke_to_path(stroke_in.points, stroke_in.stroke_width,
                                        stroke_in.style_attrs,
                                        stroke_in.straight_threshold)
    /\ pc' = "done"
    /\ UNCHANGED <<stage, stroke_in, way_list, svg_features,
                   path_in, smoothed, resmoothed, ctl_in, ctl_out>>
    /\ UNCHANGED <<emitVars, fixVars, clipVars, sampleVars, polylineVars>>

NextStroke == ConvertStroke

SpecStroke == InitStroke /\ [][NextStroke]_vars

-----------------------------------------------------------------------------
(* Claims about convert_stroke_to_path, checked under SpecStroke *)

StrokeDone == stage = "stroke" /\ pc = "done"

NumPoints == Len(stroke_in.points)

\* the vertex of a path command, in ten-thousandths
Vertex(c) == <<c.x, c.y>>

Min(S) == CHOOSE m \in S : \A x \in S : m <= x

Max(S) == CHOOSE m \in S : \A x \in S : m >= x

\* the bounding box <<xmin, ymin, xmax, ymax>> of the vertices of a path
BBox(path) ==
    LET vs == {Vertex(path[i]) : i \in {j \in 1..Len(path) : path[j].cmd # "Z"}}
    IN  <<Min({v[1] : v \in vs}), Min({v[2] : v \in vs}),
          Max({v[1] : v \in vs}), Max({v[2] : v \in vs})>>

SquareCase ==
    /\ StrokeDone
    /\ stroke_in.points = SquareClosed
    /\ stroke_in.stroke_width = RInt(2)
    /\ cap_style(stroke_in.style_attrs) = "butt"
    /\ stroke_in.straight_threshold = Rat(999, 1000)

\* C1: the closed square (0,0),(10,0),(10,10),(0,10) stroked with width 2,
\* butt caps and threshold 0.999 gives a closed outline (it ends in Z) whose
\* vertices have the bounding box (-1,-1) .. (11,11) exactly.
C1_SquareBoundingBox ==
    SquareCase =>
        /\ path_d[Len(path_d)] = CmdZ
        /\ BBox(path_d) = <<-10000, -10000, 110000, 110000>>

C1_Witness == SquareCase /\ Len(path_d) = 11

\* the unit direction of the segment p1 -> p2, as rationals
UnitDirection(p1, p2) ==
    LET length == Sqrt(Dist2(p1, p2))
    IN  <<Rat(p2[1] - p1[1], length), Rat(p2[2] - p1[2], length)>>

\* the rails of the first and last segment, computed from the input alone
RailPoint(p, p1, p2, hw, side) ==
    LET n == get_normal(p1, p2)
    IN  Shift(RPoint(p), n.nx, n.ny, hw, side)

\* C2: with cap style square the four end vertices are the rail endpoints
\* moved outward along the direction of the first (last) segment by half the
\* stroke width; with cap style butt they are the rail endpoints.  This is the
\* claim as stated; the code moves them along the normal instead.
C2_SquareCapsAlongDirection ==
    (StrokeDone /\ NumPoints >= 2
       /\ stroke_in.points[1] # stroke_in.points[2]
       /\ stroke_in.points[NumPoints - 1] # stroke_in.points[NumPoints]) =>
        LET pts == stroke_in.points
            n == NumPoints
            hw == half_width(stroke_in.stroke_width)
            ext == IF cap_style(stroke_in.style_attrs) = "square" THEN 1 ELSE 0
            u0 == UnitDirection(pts[1], pts[2])
            u1 == UnitDirection(pts[n - 1], pts[n])
        IN  /\ Vertex(path_d[1])
                 = FmtPoint(Shift(RailPoint(pts[1], pts[1], pts[2], hw, 1),
                                  u0[1], u0[2], hw, -ext))
            /\ Vertex(path_d[2 * n])
                 = FmtPoint(Shift(RailPoint(pts[1], pts[1], pts[2], hw, -1),
                                  u0[1], u0[2], hw, -ext))
            /\ Vertex(path_d[n])
                 = FmtPoint(Shift(RailPoint(pts[n], pts[n - 1], pts[n], hw, 1),
                                  u1[1], u1[2], hw, ext))
            /\ Vertex(path_d[n + 1])
                 = FmtPoint(Shift(RailPoint(pts[n], pts[n - 1], pts[n], hw, -1),
                                  u1[1], u1[2], hw, ext))

\* the forward-rail and reverse-rail vertex of input point k (1-based)
RailVertex(k, side) ==
    LET pts == stroke_in.points
        hw == half_width(stroke_in.stroke_width)
        cap == cap_style(stroke_in.style_attrs)
        sd == segments_data(pts, hw)
    IN  IF k = 1 THEN start_cap(pts, sd, hw, cap)[side]
        ELSE IF k = Len(pts) THEN end_cap(pts, sd, hw, cap)[side]
        ELSE joint(sd[k - 1], sd[k], stroke_in.straight_threshold)[side]

\* C3: for n >= 2 points the outline is one closed subpath of 2n vertices:
\* M and the forward-rail vertices of points 1..n in input order, then the
\* reverse-rail vertices of points n..1, then Z.
C3_OutlineOrder ==
    (StrokeDone /\ NumPoints >= 2) =>
        LET n == NumPoints
        IN  /\ Len(path_d) = 2 * n + 1
            /\ path_d[1].cmd = "M"
            /\ \A i \in 2..(2 * n) : path_d[i].cmd = "L"
            /\ path_d[2 * n + 1] = CmdZ
            /\ \A k \in 1..n :
                 /\ Vertex(path_d[k]) = FmtPoint(RailVertex(k, 1))
                 /\ Vertex(path_d[n + k]) = FmtPoint(RailVertex(n + 1 - k, 2))

C3_Witness ==
    /\ StrokeDone
    /\ stroke_in.points = <<<<0, 0>>, <<10, 0>>, <<10, 10>>, <<0, 10>>>>
    /\ stroke_in.stroke_width = RInt(2)
    /\ stroke_in.straight_threshold = Rat(999, 1000)
    /\ [i \in 1..8 |-> Vertex(path_d[i])]
         = <<<<0, 10000>>, <<90000, 10000>>, <<90000, 90000>>, <<0, 90000>>,
             <<0, 110000>>, <<110000, 110000>>, <<110000, -10000>>, <<0, -10000>>>>

\* the dot product of the unit normals of the segments into and out of
\* interior point i + 1 (1-based joint index i)
JointDot(i) ==
    LET pts == stroke_in.points
        a == get_normal(pts[i], pts[i + 1])
        b == get_normal(pts[i + 1], pts[i + 2])
    IN  RAdd(RMul(a.nx, b.nx), RMul(a.ny, b.ny))

\* the joint of interior point i + 1 is as the claim describes, the straight
\* case being decided by the predicate straight(dot, threshold)
JointAsClaimed(i, straight(_, _)) ==
    LET pts == stroke_in.points
        n == NumPoints
        hw == half_width(stroke_in.stroke_width)
        sd == segments_data(pts, hw)
        I_f == intersect_lines(sd[i].f_line[1], sd[i].f_line[2],
                               sd[i + 1].f_line[1], sd[i + 1].f_line[2])
        I_r == intersect_lines(sd[i].r_line[1], sd[i].r_line[2],
                               sd[i + 1].r_line[1], sd[i + 1].r_line[2])
    IN  IF straight(JointDot(i), stroke_in.straight_threshold)
           \/ I_f = None \/ I_r = None
        THEN /\ Vertex(path_d[i + 1]) = FmtPoint(sd[i + 1].f_line[1])
             /\ Vertex(path_d[2 * n - i]) = FmtPoint(sd[i + 1].r_line[1])
        ELSE /\ Vertex(path_d[i + 1]) = FmtPoint(I_f)
             /\ Vertex(path_d[2 * n - i]) = FmtPoint(I_r)

Above(dot, threshold) == RLess(threshold, dot)

AtOrAbove(dot, threshold) == RGeq(dot, threshold)

\* C4 as stated: the joint is the simple connection when the dot product of
\* the normals is above the threshold or the rails do not intersect, and the
\* two rail intersections in every other case.
C4_JointAboveThreshold ==
    (StrokeDone /\ NumPoints >= 3) =>
        \A i \in 1..(NumPoints - 2) : JointAsClaimed(i, Above)

\* C4 as amended: the joint is the simple connection when the dot product of
\* the normals is at or above the threshold or the rails do not intersect, and
\* the two rail intersections in every other case.
C4_JointAtOrAboveThreshold ==
    (StrokeDone /\ NumPoints >= 3) =>
        \A i \in 1..(NumPoints - 2) : JointAsClaimed(i, AtOrAbove)

\* a right-angle corner met with threshold 0: the dot product equals the
\* threshold, the rails cross at (9,1) and (11,-1), and the outline takes the
\* start points of the outgoing rails
C4_Witness ==
    /\ StrokeDone
    /\ stroke_in.points = <<<<0, 0>>, <<10, 0>>, <<10, 10>>>>
    /\ stroke_in.stroke_width = RInt(2)
    /\ stroke_in.straight_threshold = RZero
    /\ JointDot(1) = RZero
    /\ Vertex(path_d[2]) = <<90000, 0>>
    /\ Vertex(path_d[5]) = <<110000, 0>>

-----------------------------------------------------------------------------
(* osm2svg_v5.py: main, the collection of features from the <way> elements *)

outWidth == 1000

\* the <bounds/> element of the input document
minlon == 0
maxlon == 100
minlat == -50
maxlat == 50

\* xscale = outWidth / (maxlon - minlon)
xscale == outWidth \div (maxlon - minlon)

\* yscale = xscale / math.cos(math.radians(avg_lat)); avg_lat is 0 here
yscale == xscale

\* outHeight = yscale * (maxlat - minlat)
outHeight == yscale * (maxlat - minlat)

\* nodes: id -> (lon, lat) of the <node> elements; "n9" is referenced by ways
\* but is not in the document
nodes == [n \in {"n1", "n2", "n3"} |->
            IF n = "n1" THEN <<0, 50>> ELSE IF n = "n2" THEN <<3, 50>> ELSE <<0, 46>>]

\* lat/lon to SVG coordinates (0,0 is top-left)
project(lonlat) ==
    <<(lonlat[1] - minlon) * xscale, outHeight - (lonlat[2] - minlat) * yscale>>

\* styles: the parsed style table, tag -> style data
styles ==
    [t \in {"highway", "golf.bunker"} |->
        IF t = "highway"
        THEN [stroke_to_path |-> TRUE, corner_radius |-> 0, z_order |-> 2,
              attrs |-> [a \in {"stroke", "stroke-width"} |->
                           IF a = "stroke" THEN "#888888" ELSE "2"]]
        ELSE [stroke_to_path |-> FALSE, corner_radius |-> 0, z_order |-> 1,
              attrs |-> [a \in {"fill", "stroke"} |->
                           IF a = "fill" THEN "#EEDDAA" ELSE "none"]]]

\* float(style_data['attrs'].get('stroke-width', 1.0))
stroke_width_of(attrs) ==
    IF "stroke-width" \in DOMAIN attrs
    THEN (IF attrs["stroke-width"] = "2" THEN RInt(2) ELSE RInt(1))
    ELSE RInt(1)

\* f"{tag.get('k')}.{tag.get('v')}"
searchtag(tag) == tag[1] \o "." \o tag[2]

\* the style lookup over the <tag> children, first match wins; None if no match
RECURSIVE find_style(_)
find_style(tags) ==
    IF tags = <<>> THEN None
    ELSE IF searchtag(Head(tags)) \in DOMAIN styles
    THEN [style_data |-> styles[searchtag(Head(tags))],
          feature_tag |-> searchtag(Head(tags))]
    ELSE IF Head(tags)[1] \in DOMAIN styles
    THEN [style_data |-> styles[Head(tags)[1]], feature_tag |-> Head(tags)[1]]
    ELSE find_style(Tail(tags))

\* way_coords: the coordinates of the node references found in nodes
RECURSIVE way_coords(_)
way_coords(nd) ==
    IF nd = <<>> THEN <<>>
    ELSE IF Head(nd) \in DOMAIN nodes
    THEN <<project(nodes[Head(nd)])>> \o way_coords(Tail(nd))
    ELSE way_coords(Tail(nd))

skip_way_never(coords) == FALSE

\* if len(way_coords) < 2: continue
skip_way(coords) == Len(coords) < 2

\* the straight_threshold default of convert_stroke_to_path
default_straight_threshold == Rat(999, 1000)

\* step 3 for one way: the feature appended to svg_features
way_feature(way, found, coords) ==
    IF found.style_data.stroke_to_path
    THEN [z |-> found.style_data.z_order, tag |-> "path",
          d |-> convert_stroke_to_path(coords,
                                       stroke_width_of(found.style_data.attrs),
                                       found.style_data.attrs,
                                       default_straight_threshold),
          fill |-> found.style_data.attrs["stroke"],
          id |-> <<"way", way.id, "path", found.feature_tag>>]
    ELSE [z |-> found.style_data.z_order, tag |-> "polyline",
          points |-> [i \in 1..Len(coords) |-> FmtPoint(RPoint(coords[i]))],
          attrs |-> found.style_data.attrs,
          id |-> <<"way", way.id>>]

\* one pass of the loop "for way in document.findall('way')"
collect_way(features, way) ==
    LET found == find_style(way.tags)
        coords == way_coords(way.nd)
    IN  IF found = None THEN features
        ELSE IF skip_way(coords) THEN features
        ELSE Append(features, way_feature(way, found, coords))

\* the points of convert_way_to_svg_path: None when a node is missing
RECURSIVE way_points(_)
way_points(node_refs) ==
    IF node_refs = <<>> THEN <<>>
    ELSE IF Head(node_refs) \notin DOMAIN nodes THEN None
    ELSE IF Tail(node_refs) # <<>> /\ way_points(Tail(node_refs)) = None THEN None
    ELSE <<project(nodes[Head(node_refs)])>> \o way_points(Tail(node_refs))

\* f"M {points[0]} L {' L '.join(points[1:])} Z"
way_path_string(points) ==
    <<Cmd("M", RPoint(points[1]))>>
    \o (IF Len(points) = 1 THEN <<[cmd |-> "L"]>>
        ELSE [k \in 1..(Len(points) - 1) |-> Cmd("L", RPoint(points[k + 1]))])
    \o <<CmdZ>>

\* convert_way_to_svg_path(way_id), ways being the <way> elements of the
\* document: "" (the empty list) when the way or one of its nodes is not
\* found or the way has no nodes
convert_way_to_svg_path(ways, way_id) ==
    IF way_id \notin 1..Len(ways) THEN <<>>
    ELSE IF ways[way_id].nd = <<>> \/ way_points(ways[way_id].nd) = None THEN <<>>
    ELSE way_path_string(way_points(ways[way_id].nd))

\* the paths of the members of one role, in member order, joined
RECURSIVE member_paths(_, _, _)
member_paths(ways, members, role) ==
    IF members = <<>> THEN <<>>
    ELSE (IF Head(members).type = "way" /\ Head(members).role = role
          THEN convert_way_to_svg_path(ways, Head(members).ref)
          ELSE <<>>)
         \o member_paths(ways, Tail(members), role)

\* process_multipolygon_relation(relation, styles): the feature, or None
process_multipolygon_relation(ways, relation) ==
    IF find_style(relation.tags) = None THEN None
    ELSE IF member_paths(ways, relation.members, "outer") = <<>> THEN None
    ELSE [z |-> find_style(relation.tags).style_data.z_order, tag |-> "path",
          d |-> member_paths(ways, relation.members, "outer")
                \o member_paths(ways, relation.members, "inner"),
          attrs |-> find_style(relation.tags).style_data.attrs,
          fill_rule |-> IF "fill-rule" \in DOMAIN find_style(relation.tags).style_data.attrs
                        THEN find_style(relation.tags).style_data.attrs["fill-rule"]
                        ELSE "evenodd",
          id |-> <<"rel", relation.id>>]

\* relation.find('tag[@k="type"][@v="multipolygon"]') is not None
is_multipolygon(relation) ==
    \E k \in 1..Len(relation.tags) : relation.tags[k] = <<"type", "multipolygon">>

\* one pass of the loop "for relation in document.findall('relation')"
collect_relation(features, ways, relation) ==
    IF ~is_multipolygon(relation) THEN features
    ELSE IF process_multipolygon_relation(ways, relation) = None THEN features
    ELSE Append(features, process_multipolygon_relation(ways, relation))

\* the <way> elements a document may hold: node references and tags
NdLists == {<<>>, <<"n1">>, <<"n9">>, <<"n1", "n2">>, <<"n1", "n9">>,
            <<"n1", "n2", "n3">>, <<"n1", "n9", "n3">>,
            <<"n1", "n2", "n3", "n1">>}

TagLists == {<<>>, <<<<"highway", "path">>>>, <<<<"golf", "bunker">>>>,
             <<<<"name", "x">>, <<"golf", "bunker">>>>}

InitMain ==
    /\ stage = "main"
    /\ pc = "ways"
    /\ way_list = <<>>
    /\ svg_features = <<>>
    /\ stroke_in = Idle /\ path_d = Idle
    /\ path_in = Idle /\ smoothed = Idle /\ resmoothed = Idle
    /\ ctl_in = Idle /\ ctl_out = Idle
    /\ relation_list = <<>> /\ outputFile = <<>>
    /\ IdleFix /\ IdleClip
    /\ IdleSample /\ IdlePolylines

\* the loop meets the next <way> of the document
ProcessWay ==
    /\ stage = "main"
    /\ pc = "ways"
    /\ Len(way_list) < MaxWays
    /\ \E nd \in NdLists, tags \in TagLists :
         LET way == [id |-> Len(way_list) + 1, nd |-> nd, tags |-> tags]
         IN  /\ way_list' = Append(way_list, way)
             /\ svg_features' = collect_way(svg_features, way)
    /\ UNCHANGED <<stage, pc, stroke_in, path_d,
                   path_in, smoothed, resmoothed, ctl_in, ctl_out>>
    /\ UNCHANGED <<emitVars, fixVars, clipVars, sampleVars, polylineVars>>

\* svg_features.sort(key=lambda x: x['z']): ascending z, equal z in the order
\* they had
RECURSIVE sort_by_z(_)
sort_by_z(features) ==
    IF features = <<>> THEN <<>>
    ELSE LET zs == {features[i].z : i \in 1..Len(features)}
             lowest == CHOOSE m \in zs : \A z \in zs : m <= z
         IN  SelectSeq(features, LAMBDA f : f.z = lowest)
             \o sort_by_z(SelectSeq(features, LAMBDA f : f.z # lowest))

\* the <relation> elements a document may hold: tags and members
RelationKinds ==
    {[tags |-> <<<<"type", "multipolygon">>, <<"golf", "bunker">>>>,
      members |-> <<[type |-> "way", ref |-> 1, role |-> "outer"]>>],
     [tags |-> <<<<"type", "multipolygon">>, <<"highway", "path">>>>,
      members |-> <<[type |-> "way", ref |-> 1, role |-> "outer"],
                    [type |-> "way", ref |-> 2, role |-> "inner"]>>],
     [tags |-> <<<<"golf", "bunker">>>>,
      members |-> <<[type |-> "way", ref |-> 1, role |-> "outer"]>>]}

\* the loop over the ways is over; the loop over the relations meets the
\* next <relation> of the document
ProcessRelation ==
    /\ stage = "main"
    /\ pc \in {"ways", "relations"}
    /\ Len(relation_list) < MaxRelations
    /\ \E kind \in RelationKinds :
         LET relation == [id |-> Len(relation_list) + 1, tags |-> kind.tags,
                          members |-> kind.members]
         IN  /\ relation_list' = Append(relation_list, relation)
             /\ svg_features' = collect_relation(svg_features, way_list, relation)
    /\ pc' = "relations"
    /\ UNCHANGED <<stage, stroke_in, path_d, way_list, outputFile,
                   path_in, smoothed, resmoothed, ctl_in, ctl_out>>
    /\ UNCHANGED <<fixVars, clipVars, sampleVars, polylineVars>>

write_unsorted(features) ==
    <<[svg |-> "header", width |-> outWidth, height |-> Fmt4(RInt(outHeight))]>>
    \o features \o <<[svg |-> "</svg>"]>>

\* the output file: the header, feature['svg'] for each feature of the
\* sorted list, the footer
write(features) ==
    <<[svg |-> "header", width |-> outWidth, height |-> Fmt4(RInt(outHeight))]>>
    \o sort_by_z(features) \o <<[svg |-> "</svg>"]>>

\* the document has no further <way> or <relation>: the features are sorted
\* and written
EndWays ==
    /\ stage = "main"
    /\ pc \in {"ways", "relations"}
    /\ pc' = "sorted"
    /\ svg_features' = sort_by_z(svg_features)
    /\ outputFile' = write(svg_features)
    /\ UNCHANGED <<stage, stroke_in, path_d, way_list, relation_list,
                   path_in, smoothed, resmoothed, ctl_in, ctl_out>>
    /\ UNCHANGED <<fixVars, clipVars, sampleVars, polylineVars>>

NextMain == ProcessWay \/ ProcessRelation \/ EndWays

SpecMain == InitMain /\ [][NextMain]_vars

-----------------------------------------------------------------------------
(* Claims about main, checked under SpecMain *)

\* the features made from the way with this id
FeaturesOfWay(id) ==
    {i \in 1..Len(svg_features) :
        svg_features[i].id[1] = "way" /\ svg_features[i].id[2] = id}

Styled(way) == find_style(way.tags) # None

\* C5: a styled way with fewer than 2 points gives no feature (it is skipped),
\* and the batch continues: every styled way with 2 or more points, also one
\* met after a skipped way, has its feature (in document order until the sort).
C5_ShortPolylineSkipped ==
    stage = "main" =>
        /\ \A i \in 1..Len(way_list) :
             LET way == way_list[i]
             IN  IF Styled(way) /\ Len(way_coords(way.nd)) >= 2
                 THEN Cardinality(FeaturesOfWay(way.id)) = 1
                 ELSE FeaturesOfWay(way.id) = {}
        /\ pc = "ways" =>
             \A i, j \in 1..Len(svg_features) :
                 i < j => svg_features[i].id[2] < svg_features[j].id[2]
        /\ \A i \in 1..Len(svg_features) :
             svg_features[i].tag = "path" => svg_features[i].d # <<>>

\* a stroke-to-path way with one point was skipped and the next way was drawn
C5_Witness ==
    /\ stage = "main"
    /\ Len(way_list) = 2
    /\ way_list[1].nd = <<"n1", "n9">>
    /\ way_list[1].tags = <<<<"highway", "path">>>>
    /\ way_list[2].nd = <<"n1", "n2">>
    /\ way_list[2].tags = <<<<"highway", "path">>>>
    /\ Len(svg_features) = 1
    /\ svg_features[1].id = <<"way", 2, "path", "highway">>

-----------------------------------------------------------------------------
(* svg_points2path.py: points, control points and segments *)

(* A node is an integer point <<x, y>> (a complex number of the program).  *)
(* A control point is the point base + len * dir / |dir|: base is a point  *)
(* with rational coordinates, dir the primitive integer vector of a unit   *)
(* vector (<<0, 0>> when len is 0) and len a rational length >= 0.         *)

\* the control point that is the point p itself
CAt(p) == [base |-> p, dir |-> <<0, 0>>, len |-> RZero]

\* base + len * dir / |dir|
COffset(p, dir, len) ==
    IF len = RZero \/ dir = <<0, 0>> THEN CAt(p)
    ELSE [base |-> p, dir |-> dir, len |-> len]

\* D / abs(D) for a rational vector D # 0: the primitive integer vector of
\* its direction
UnitDir(D) ==
    LET a == D[1][1] * D[2][2]
        b == D[2][1] * D[1][2]
        g == GCD(Abs(a), Abs(b))
    IN  <<a \div g, b \div g>>

\* svgpathtools Line(start, end) and CubicBezier(start, control1, control2, end)
Line(start, end) == [kind |-> "Line", start |-> start, end |-> end]

CubicBezier(start, control1, control2, end) ==
    [kind |-> "CubicBezier", start |-> start, control1 |-> control1,
     control2 |-> control2, end |-> end]

-----------------------------------------------------------------------------
(* svg_points2path.py: get_auto_smooth_controls *)

\* the default of the parameter tightness_factor
tightness_factor_default == RInt(1)

SMOOTH_TIGHTNESS_FACTOR == Rat(1, 2)

\* step 2: the direction vector D = (L_prev / L_next) * V_next - V_prev
direction_D(V_prev, V_next, L_prev, L_next) ==
    <<RSub(RMul(Rat(L_prev, L_next), RInt(V_next[1])), RInt(V_prev[1])),
      RSub(RMul(Rat(L_prev, L_next), RInt(V_next[2])), RInt(V_prev[2]))>>

\* step 3: T_unit = (D / abs(D)) * 1j at a reflex angle, * (-1j) otherwise
tangent_T(U, signed_angle_z) ==
    IF signed_angle_z < 0 THEN <<-U[2], U[1]>> ELSE <<U[2], -U[1]>>

\* step 4: C1 = P_i - T_unit * handle_len_prev, C2 = P_i + T_unit * handle_len_next
control_points(P_i, T_unit, handle_len_prev, handle_len_next) ==
    [ok |-> TRUE,
     C1 |-> COffset(RPoint(P_i), <<-T_unit[1], -T_unit[2]>>, handle_len_prev),
     C2 |-> COffset(RPoint(P_i), T_unit, handle_len_next)]

\* steps 2-4 for segment vectors of non-zero length
smooth_controls(P_i, V_prev, V_next, L_prev, L_next, D, tightness_factor) ==
    IF D = <<RZero, RZero>> THEN [ok |-> FALSE]
    ELSE control_points(P_i,
                        tangent_T(UnitDir(D),
                                  V_prev[1] * V_next[2] - V_prev[2] * V_next[1]),
                        RMul(Rat(L_prev, 3), tightness_factor),
                        RMul(Rat(L_next, 3), tightness_factor))

controls_of_fatal(P_i, V_prev, V_next, L_prev, L_next, tightness_factor) ==
    IF L_prev = 0 \/ L_next = 0
    THEN [ok |-> FALSE]
    ELSE smooth_controls(P_i, V_prev, V_next, L_prev, L_next,
                         direction_D(V_prev, V_next, L_prev, L_next),
                         tightness_factor)

\* step 1 done: the vectors and their lengths are known
controls_of(P_i, V_prev, V_next, L_prev, L_next, tightness_factor) ==
    IF L_prev = 0 \/ L_next = 0
    THEN [ok |-> TRUE, C1 |-> CAt(RPoint(P_i)), C2 |-> CAt(RPoint(P_i))]
    ELSE smooth_controls(P_i, V_prev, V_next, L_prev, L_next,
                         direction_D(V_prev, V_next, L_prev, L_next),
                         tightness_factor)

\* get_auto_smooth_controls(P_prev, P_i, P_next, tightness_factor): the pair
\* (C1, C2) as [ok |-> TRUE, C1, C2], or [ok |-> FALSE] when D / abs(D)
\* divides by zero (ZeroDivisionError)
get_auto_smooth_controls(P_prev, P_i, P_next, tightness_factor) ==
    controls_of(P_i,
                <<P_i[1] - P_prev[1], P_i[2] - P_prev[2]>>,
                <<P_next[1] - P_i[1], P_next[2] - P_i[2]>>,
                Sqrt(Dist2(P_prev, P_i)), Sqrt(Dist2(P_i, P_next)),
                tightness_factor)

-----------------------------------------------------------------------------
(* svg_points2path.py: smooth_path_segments *)

\* step 1: a Line becomes the CubicBezier with control points at 1/3 and 2/3
to_cubic(seg) ==
    IF seg.kind = "Line"
    THEN LET P1 == seg.start
             P2 == seg.end
             V == <<P2[1] - P1[1], P2[2] - P1[2]>>
             C1 == <<RAdd(RInt(P1[1]), Rat(V[1], 3)), RAdd(RInt(P1[2]), Rat(V[2], 3))>>
             C2 == <<RSub(RInt(P2[1]), Rat(V[1], 3)), RSub(RInt(P2[2]), Rat(V[2], 3))>>
         IN  CubicBezier(P1, CAt(C1), CAt(C2), P2)
    ELSE seg

cubic_segments(original_path_segments) ==
    [j \in 1..Len(original_path_segments) |-> to_cubic(original_path_segments[j])]

\* step 2: nodes = [seg.start for seg in cubic_segments] + [cubic_segments[-1].end]
path_nodes(cs) == [j \in 1..Len(cs) |-> cs[j].start] \o <<cs[Len(cs)].end>>

passes_through_below_two(num_nodes) == num_nodes < 2

\* if num_nodes <= 2: return cubic_segments
passes_through(num_nodes) == num_nodes <= 2

P_prev_of_last_node(ns, j, is_closed) ==
    IF j = 1 THEN (IF is_closed THEN ns[Len(ns)] ELSE ns[j]) ELSE ns[j - 1]

\* P_prev of segment j (1-based): nodes[-2] for the first segment of a closed path
P_prev_of(ns, j, is_closed) ==
    IF j = 1 THEN (IF is_closed THEN ns[Len(ns) - 1] ELSE ns[j]) ELSE ns[j - 1]

\* P_next_next of segment j: nodes[1] for the last segment of a closed path
P_next_next_of(ns, j, is_closed) ==
    IF j = Len(ns) - 1 THEN (IF is_closed THEN ns[2] ELSE ns[j + 1]) ELSE ns[j + 2]

\* P_next - (C - P_i) for a control point C
mirror_handle(C, P_i, P_next) ==
    [base |-> <<RSub(RInt(P_next[1]), RSub(C.base[1], RInt(P_i[1]))),
                RSub(RInt(P_next[2]), RSub(C.base[2], RInt(P_i[2])))>>,
     dir |-> <<-C.dir[1], -C.dir[2]>>,
     len |-> C.len]

new_seg_from_prev(P_prev, P_i, C2_i, C1_next, P_next) ==
    CubicBezier(P_prev, C2_i, C1_next, P_next)

\* new_seg = CubicBezier(P_i, C2_i, C1_next, P_next)
new_seg(P_prev, P_i, C2_i, C1_next, P_next) ==
    CubicBezier(P_i, C2_i, C1_next, P_next)

\* the segment made from the two calls of one pass: at_i is the call for
\* P_i, at_next the call for P_next
segment_of(P_prev, P_i, P_next, at_i, at_next, smooth_start, smooth_end) ==
    IF (IF smooth_start THEN at_i.ok ELSE at_next.ok)
       /\ (IF smooth_end THEN at_next.ok ELSE at_i.ok)
    THEN [ok |-> TRUE,
          seg |-> new_seg(P_prev, P_i,
                          IF smooth_start THEN at_i.C2 ELSE at_next.C1,
                          IF smooth_end THEN at_next.C1
                          ELSE mirror_handle(at_i.C2, P_i, P_next),
                          P_next)]
    ELSE [ok |-> FALSE]

\* the pass for P_prev, P_i, P_next, P_next_next
smooth_pass(P_prev, P_i, P_next, P_next_next, smooth_start, smooth_end) ==
    segment_of(P_prev, P_i, P_next,
               get_auto_smooth_controls(P_prev, P_i, P_next, SMOOTH_TIGHTNESS_FACTOR),
               get_auto_smooth_controls(P_i, P_next, P_next_next,
                                        SMOOTH_TIGHTNESS_FACTOR),
               smooth_start, smooth_end)

smooth_segment_two_sided(ns, j, is_closed) ==
    smooth_pass(P_prev_of(ns, j, is_closed), ns[j], ns[j + 1],
                P_next_next_of(ns, j, is_closed), TRUE, TRUE)

\* one pass of the smoothing loop, segment j (1-based):
\* [ok |-> TRUE, seg |-> new_seg], or [ok |-> FALSE] when a call raises
smooth_segment(ns, j, is_closed) ==
    smooth_pass(P_prev_of(ns, j, is_closed), ns[j], ns[j + 1],
                P_next_next_of(ns, j, is_closed),
                is_closed \/ j > 1, is_closed \/ j < Len(ns) - 1)

\* step 3, the loop over the segments
smooth_loop(ns, is_closed) ==
    [j \in 1..(Len(ns) - 1) |-> smooth_segment(ns, j, is_closed)]

\* what the loop returns: the new segments, unless a pass raised
loop_result(out) ==
    IF \A j \in 1..Len(out) : out[j].ok
    THEN [ok |-> TRUE, segs |-> [j \in 1..Len(out) |-> out[j].seg]]
    ELSE [ok |-> FALSE]

\* steps 2 and 3 on the cubic segments
smooth_cubics(cs, ns, is_closed) ==
    IF passes_through(Len(ns)) THEN [ok |-> TRUE, segs |-> cs]
    ELSE loop_result(smooth_loop(ns, is_closed))

\* smooth_path_segments(original_path_segments, is_closed):
\* [ok |-> TRUE, segs |-> the returned list], or [ok |-> FALSE] when it raises
smooth_path_segments(original_path_segments, is_closed) ==
    IF original_path_segments = <<>> THEN [ok |-> TRUE, segs |-> <<>>]
    ELSE smooth_cubics(cubic_segments(original_path_segments),
                       path_nodes(cubic_segments(original_path_segments)),
                       is_closed)

\* apply_path_smoothing: is_closed = (original_path.start == original_path.end)
is_closed_path(segs) == segs # <<>> /\ segs[1].start = segs[Len(segs)].end

-----------------------------------------------------------------------------
(* The smoothing run: smooth_path_segments on a parsed path, then on its own
   output *)

SmoothPoints == {<<0, 0>>, <<3, 0>>, <<3, 4>>, <<6, 8>>}

\* the path parse_path gives for the nodes w: segments of one kind; with
\* brk > 0 segment brk closes a subpath (it ends at the first node) and
\* segment brk + 1 starts the next subpath
InputSegment(w, j, kind, brk) ==
    LET start == w[j]
        end == IF j = brk THEN w[1] ELSE w[j + 1]
    IN  IF kind = "Line" THEN Line(start, end)
        ELSE CubicBezier(start, CAt(RPoint(start)), CAt(RPoint(end)), end)

InputPath(w, kind, brk) == [j \in 1..(Len(w) - 1) |-> InputSegment(w, j, kind, brk)]

InputPaths ==
    {<<>>} \cup
    UNION {{InputPath(w, kind, brk) :
              w \in WalksOn(SmoothPoints, n + 1),
              kind \in {"Line", "CubicBezier"},
              brk \in 0..(n - 1)} : n \in 1..MaxSegs}

\* the nodes of a path lie on a grid: the grid step, in units of 1e-6 drawing
\* units (a tenth of that, and a thousand of them)
GridSteps == {Rat(1, 10), RInt(1000)}

InitSmooth ==
    /\ stage = "smooth"
    /\ pc = "start"
    /\ path_in \in [segs : InputPaths, step : GridSteps]
    /\ smoothed = Idle
    /\ resmoothed = Idle
    /\ stroke_in = Idle /\ path_d = Idle
    /\ way_list = Idle /\ svg_features = Idle
    /\ ctl_in = Idle /\ ctl_out = Idle
    /\ IdleEmit /\ IdleFix /\ IdleClip
    /\ IdleSample /\ IdlePolylines

\* smoothed_segments = smooth_path_segments(original_path, is_closed)
Smooth ==
    /\ stage = "smooth"
    /\ pc = "start"
    /\ smoothed' = smooth_path_segments(path_in.segs, is_closed_path(path_in.segs))
    /\ pc' = IF smoothed'.ok THEN "smoothed" ELSE "raised"
    /\ UNCHANGED <<stage, stroke_in, path_d, way_list, svg_features,
                   path_in, resmoothed, ctl_in, ctl_out>>
    /\ UNCHANGED <<emitVars, fixVars, clipVars, sampleVars, polylineVars>>

\* smooth_path_segments on the segments it returned, with the same closed flag
SmoothAgain ==
    /\ stage = "smooth"
    /\ pc = "smoothed"
    /\ resmoothed' = smooth_path_segments(smoothed.segs, is_closed_path(path_in.segs))
    /\ pc' = "resmoothed"
    /\ UNCHANGED <<stage, stroke_in, path_d, way_list, svg_features,
                   path_in, smoothed, ctl_in, ctl_out>>
    /\ UNCHANGED <<emitVars, fixVars, clipVars, sampleVars, polylineVars>>

NextSmooth == Smooth \/ SmoothAgain

SpecSmooth == InitSmooth /\ [][NextSmooth]_vars

-----------------------------------------------------------------------------
(* Claims about smooth_path_segments, checked under SpecSmooth *)

SmoothReturned == stage = "smooth" /\ pc \in {"smoothed", "resmoothed"}

\* the nodes of the input path, as smooth_path_segments extracts them
InNodes ==
    IF path_in.segs = <<>> THEN <<>> ELSE path_nodes(cubic_segments(path_in.segs))

\* C6: the returned list has as many segments as the input, and segment j has
\* the start node and the end node of input segment j, also for a path of
\* several subpaths.  This is the claim as stated; the code ends segment j at
\* the start of input segment j + 1, which across two subpaths is another node.
C6_SameConnectivity ==
    SmoothReturned =>
        /\ Len(smoothed.segs) = Len(path_in.segs)
        /\ \A j \in 1..Len(path_in.segs) :
             /\ smoothed.segs[j].start = path_in.segs[j].start
             /\ smoothed.segs[j].end = path_in.segs[j].end

\* the vertices with two neighbours: <<k, prev, next>>, k the index of the
\* segment that leaves the vertex
TwoNeighbourVertices ==
    LET N == Len(InNodes)
    IN  {<<k, k - 1, k + 1>> : k \in 2..(N - 1)}
        \cup (IF is_closed_path(path_in.segs) THEN {<<1, N - 1, 2>>} ELSE {})

\* the handle into the vertex of <<k, prev, next>> and the handle out of it
HandleIn(v) == smoothed.segs[v[2]].control2

HandleOut(v) == smoothed.segs[v[1]].control1

\* both handles leave the point P in opposite directions, each at a distance
OppositeHandles(in, out, P) ==
    /\ in.base = RPoint(P) /\ out.base = RPoint(P)
    /\ in.dir # <<0, 0>>
    /\ out.dir = <<-in.dir[1], -in.dir[2]>>
    /\ RLess(RZero, in.len) /\ RLess(RZero, out.len)

Triangle ==
    <<Line(<<0, 0>>, <<3, 0>>), Line(<<3, 0>>, <<3, 4>>), Line(<<3, 4>>, <<0, 0>>)>>

C8_Idempotent ==
    (stage = "smooth" /\ pc = "resmoothed" /\ is_closed_path(path_in.segs)) =>
        /\ resmoothed.ok
        /\ Len(resmoothed.segs) = Len(smoothed.segs)
        /\ \A j \in 1..Len(smoothed.segs) :
             /\ resmoothed.segs[j].control1 = smoothed.segs[j].control1
             /\ resmoothed.segs[j].control2 = smoothed.segs[j].control2
             /\ resmoothed.segs[j].start = smoothed.segs[j].start
             /\ resmoothed.segs[j].end = smoothed.segs[j].end

C8_Witness ==
    /\ stage = "smooth" /\ pc = "resmoothed"
    /\ path_in.segs = Triangle
    /\ resmoothed.segs[1].control1
         = [base |-> RPoint(<<0, 0>>), dir |-> <<1, -2>>, len |-> Rat(1, 2)]
    /\ resmoothed.segs = smoothed.segs

\* the point P1 + k * (P2 - P1) / 3
ThirdPoint(P1, P2, k) ==
    <<Rat(3 * P1[1] + k * (P2[1] - P1[1]), 3), Rat(3 * P1[2] + k * (P2[2] - P1[2]), 3)>>

\* C10 as stated: a path of 2 or fewer nodes (no segment, or one) is returned
\* unmodified: the returned segments equal the input segments.
C10_ShortPathUnmodified ==
    (stage = "smooth" /\ pc # "start" /\ Len(path_in.segs) <= 1) =>
        /\ smoothed.ok
        /\ smoothed.segs = path_in.segs

\* C10 as amended: a path of 2 or fewer nodes gets no smoothed handle: a
\* CubicBezier segment is returned as it is, and a Line is returned as the
\* CubicBezier with the same start and end whose control points lie at 1/3
\* and 2/3 of the line.
C10_ShortPathOnlyMadeCubic ==
    (stage = "smooth" /\ pc # "start" /\ Len(path_in.segs) <= 1) =>
        /\ smoothed.ok
        /\ Len(smoothed.segs) = Len(path_in.segs)
        /\ \A j \in 1..Len(path_in.segs) :
             LET seg == path_in.segs[j]
             IN  IF seg.kind = "Line"
                 THEN smoothed.segs[j]
                        = CubicBezier(seg.start,
                                      CAt(ThirdPoint(seg.start, seg.end, 1)),
                                      CAt(ThirdPoint(seg.start, seg.end, 2)),
                                      seg.end)
                 ELSE smoothed.segs[j] = seg

C10_Witness ==
    /\ stage = "smooth" /\ pc = "smoothed"
    /\ path_in.segs = <<Line(<<0, 0>>, <<3, 0>>)>>
    /\ smoothed.segs = <<CubicBezier(<<0, 0>>, CAt(RPoint(<<1, 0>>)),
                                     CAt(RPoint(<<2, 0>>)), <<3, 0>>)>>

\* the vertex of <<k, prev, next>> has the position of one of its neighbours
Coincident(v) == InNodes[v[2]] = InNodes[v[1]] \/ InNodes[v[3]] = InNodes[v[1]]

\* the vertex of <<k, prev, next>> lies between its two neighbours on a
\* straight line, passed in one direction: the case in which D is zero
StraightThrough(v) ==
    LET P == InNodes[v[1]]
        V_prev == <<P[1] - InNodes[v[2]][1], P[2] - InNodes[v[2]][2]>>
        V_next == <<InNodes[v[3]][1] - P[1], InNodes[v[3]][2] - P[2]>>
    IN  /\ ~Coincident(v)
        /\ V_prev[1] * V_next[2] - V_prev[2] * V_next[1] = 0
        /\ V_prev[1] * V_next[1] + V_prev[2] * V_next[2] > 0

\* C11: a node with a neighbour at its own position (a zero-length vector on
\* one side) gets both handles equal to the node, and this is not fatal: the
\* run raises only for another reason (a node passed straight through), and
\* in the returned path every other node has its handles at a distance.
C11_ZeroLengthCollapsesNotFatal ==
    (stage = "smooth" /\ pc # "start" /\ Len(InNodes) >= 3) =>
        /\ pc = "raised" => \E v \in TwoNeighbourVertices : StraightThrough(v)
        /\ SmoothReturned =>
             \A v \in TwoNeighbourVertices :
                 IF Coincident(v)
                 THEN /\ HandleIn(v).base = RPoint(InNodes[v[1]])
                      /\ HandleIn(v).len = RZero
                      /\ HandleOut(v).base = RPoint(InNodes[v[1]])
                      /\ HandleOut(v).len = RZero
                 ELSE /\ RLess(RZero, HandleIn(v).len)
                      /\ RLess(RZero, HandleOut(v).len)

\* the open path (0,0),(0,0),(3,0),(3,4): the second node has its
\* predecessor's position and keeps its handles, the third node is smoothed
C11_Witness ==
    /\ SmoothReturned
    /\ path_in.segs = <<Line(<<0, 0>>, <<0, 0>>), Line(<<0, 0>>, <<3, 0>>),
                        Line(<<3, 0>>, <<3, 4>>)>>
    /\ smoothed.segs[2].control1 = CAt(RPoint(<<0, 0>>))
    /\ smoothed.segs[2].control2.len = Rat(1, 2)
    /\ smoothed.segs[3].control1.len = Rat(2, 3)

-----------------------------------------------------------------------------
(* A single get_auto_smooth_controls call, with or without the fourth argument *)

InitControls ==
    /\ stage = "controls"
    /\ pc = "start"
    /\ ctl_in \in {c \in [P_prev : PointSet, P_i : PointSet, P_next : PointSet,
                          given : BOOLEAN, tightness_factor : {SMOOTH_TIGHTNESS_FACTOR}] :
                     /\ IsSquare(Dist2(c.P_prev, c.P_i))
                     /\ IsSquare(Dist2(c.P_i, c.P_next))}
    /\ ctl_out = Idle
    /\ stroke_in = Idle /\ path_d = Idle
    /\ way_list = Idle /\ svg_features = Idle
    /\ path_in = Idle /\ smoothed = Idle /\ resmoothed = Idle
    /\ IdleEmit /\ IdleFix /\ IdleClip
    /\ IdleSample /\ IdlePolylines

\* the tightness the call computes with
tightness_used(c) == IF c.given THEN c.tightness_factor ELSE tightness_factor_default

CallControls ==
    /\ stage = "controls"
    /\ pc = "start"
    /\ ctl_out' = get_auto_smooth_controls(ctl_in.P_prev, ctl_in.P_i, ctl_in.P_next,
                                           tightness_used(ctl_in))
    /\ pc' = "done"
    /\ UNCHANGED <<stage, stroke_in, path_d, way_list, svg_features,
                   path_in, smoothed, resmoothed, ctl_in>>
    /\ UNCHANGED <<emitVars, fixVars, clipVars, sampleVars, polylineVars>>

NextControls == CallControls

SpecControls == InitControls /\ [][NextControls]_vars

-----------------------------------------------------------------------------
(* Claims about get_auto_smooth_controls, checked under SpecControls *)

\* C9: a handle computation made without a tightness argument uses 0.5: each
\* handle has the length (adjacent segment length / 3) * 0.5.  This is the
\* claim as stated; the default of the parameter is 1.0.
C9_DefaultTightnessHalf ==
    (stage = "controls" /\ pc = "done" /\ ~ctl_in.given /\ ctl_out.ok
       /\ ctl_in.P_prev # ctl_in.P_i /\ ctl_in.P_i # ctl_in.P_next) =>
        /\ ctl_out.C1.len
             = RMul(Rat(Sqrt(Dist2(ctl_in.P_prev, ctl_in.P_i)), 3), Rat(1, 2))
        /\ ctl_out.C2.len
             = RMul(Rat(Sqrt(Dist2(ctl_in.P_i, ctl_in.P_next)), 3), Rat(1, 2))

-----------------------------------------------------------------------------
(* fix_bunker_inset.py: simplify_and_offset_path *)

BUNKER_TAG == "golf.bunker"

CLIPPER_SCALE_FACTOR == 1000

SAMPLES_PER_UNIT_LENGTH == 4

MIN_SAMPLES == 200

\* A d attribute of the input file.  What the libraries make of it is part
\* of the input: whether parse_path accepts it, the length Path.length()
\* gives, and the rings PyclipperOffset.Execute returns for its samples
\* (lists of integer points, scaled by CLIPPER_SCALE_FACTOR).
PathD(parses, path_length, offset_polygons) ==
    [parses |-> parses, path_length |-> path_length,
     offset_polygons |-> offset_polygons, raises |-> FALSE]

\* a d attribute for whose samples the offsetting raises an exception
PathDRaising(path_length) ==
    [parses |-> TRUE, path_length |-> path_length,
     offset_polygons |-> <<>>, raises |-> TRUE]

\* int(x) for a rational x: the whole part, rounded towards zero
int(x) == IF x[1] >= 0 THEN x[1] \div x[2] ELSE -((-x[1]) \div x[2])

\* step 1: num_samples = max(int(path_length * SAMPLES_PER_UNIT_LENGTH), MIN_SAMPLES)
num_samples(path_length) ==
    LET n == int(RMul(path_length, RInt(SAMPLES_PER_UNIT_LENGTH)))
    IN  IF n >= MIN_SAMPLES THEN n ELSE MIN_SAMPLES

largest_poly_last(offset_polygons) ==
    offset_polygons[CHOOSE i \in 1..Len(offset_polygons) :
                      \A j \in 1..Len(offset_polygons) :
                          \/ Len(offset_polygons[j]) < Len(offset_polygons[i])
                          \/ (Len(offset_polygons[j]) = Len(offset_polygons[i]) /\ j <= i)]

\* max(offset_polygons, key=len): the first ring of the greatest length
largest_poly(offset_polygons) ==
    offset_polygons[CHOOSE i \in 1..Len(offset_polygons) :
                      \A j \in 1..Len(offset_polygons) :
                          \/ Len(offset_polygons[j]) < Len(offset_polygons[i])
                          \/ (Len(offset_polygons[j]) = Len(offset_polygons[i]) /\ i <= j)]

\* f"{x / CLIPPER_SCALE_FACTOR:.3f},{y / CLIPPER_SCALE_FACTOR:.3f}" of an
\* integer point: the two numbers in decimal notation with 3 places, given
\* here as their sign, whole part and thousandths
fmt3(x) ==
    [neg |-> x < 0, whole |-> Abs(x) \div CLIPPER_SCALE_FACTOR,
     frac |-> Abs(x) % CLIPPER_SCALE_FACTOR]

\* step 4: "M x,y " then "L x,y " for each further vertex, then "Z"
ring_d_string(poly) ==
    [cmds |-> <<<<"M", fmt3(poly[1][1]), fmt3(poly[1][2])>>>>
              \o [k \in 1..(Len(poly) - 1) |->
                     <<"L", fmt3(poly[k + 1][1]), fmt3(poly[k + 1][2])>>]
              \o <<<<"Z">>>>]

no_geometry_as_empty(d_string) == [cmds |-> <<>>]

\* else: return d_string  (offsetting gave no ring)
no_geometry(d_string) == d_string

\* simplify_and_offset_path(d_string, offset_value): the returned d and the
\* lines it prints; raised when an exception leaves it (only parse_path is
\* called inside a try), and then nothing is returned
simplify_and_offset_path(d_string) ==
    IF ~d_string.parses
    THEN [d |-> d_string, raised |-> FALSE,
          printed |-> <<[line |-> "Warning: Failed to parse SVG path"]>>]
    ELSE [d |-> IF d_string.offset_polygons # <<>>
                THEN ring_d_string(largest_poly(d_string.offset_polygons))
                ELSE no_geometry(d_string),
          raised |-> d_string.raises,
          printed |-> <<[line |-> "Path Length",
                         path_length |-> d_string.path_length,
                         num_samples |-> num_samples(d_string.path_length)]>>]

-----------------------------------------------------------------------------
(* fix_bunker_inset.py: fix_bunker_paths *)

\* BUNKER_TAG in path_id, the id being given by its parts (joined by "_"),
\* of which the second is the number of the OSM element
is_bunker_id(path_id) ==
    \E k \in (1..Len(path_id)) \ {2} : path_id[k] = BUNKER_TAG

\* path_elem.set('d', new_d); path_elem.set('data-fixed', 'outset')
mark_fixed(path_elem, new_d) ==
    [path_elem EXCEPT !.d = new_d, !.data_fixed = <<"outset">>]

\* the pass for an element that is given to simplify_and_offset_path
outset_path(path_elem, r) ==
    IF r.raised
    THEN [elem |-> path_elem, raised |-> TRUE,
          printed |-> <<[line |-> "Found and processing bunker",
                         path_id |-> path_elem.id]>> \o r.printed,
          fixed |-> 0]
    ELSE [elem |-> mark_fixed(path_elem, r.d), raised |-> FALSE,
          printed |-> <<[line |-> "Found and processing bunker",
                         path_id |-> path_elem.id]>> \o r.printed,
          fixed |-> 1]

fix_path_any_id(path_elem) ==
    IF path_elem.d # None
    THEN outset_path(path_elem, simplify_and_offset_path(path_elem.d))
    ELSE [elem |-> path_elem, raised |-> FALSE, printed |-> <<>>, fixed |-> 0]

\* the body of the loop over the <path> elements, for one element: the
\* element afterwards, the lines printed, the increment of fixed_count, and
\* whether an exception left the body
fix_path(path_elem) ==
    IF is_bunker_id(path_elem.id) /\ path_elem.d # None
    THEN outset_path(path_elem, simplify_and_offset_path(path_elem.d))
    ELSE [elem |-> path_elem, raised |-> FALSE, printed |-> <<>>, fixed |-> 0]

-----------------------------------------------------------------------------
(* The outset run: fix_bunker_paths on a document *)

MaxPaths == 2

\* rings as PyclipperOffset.Execute returns them
Ring3 == <<<<0, 0>>, <<2000, 0>>, <<2000, 1500>>>>

Ring4 == <<<<-875, -875>>, <<10875, -875>>, <<10875, 10875>>, <<-875, 10875>>>>

Ring4b == <<<<20125, 125>>, <<21000, 125>>, <<21000, 1000>>, <<20125, 1000>>>>

\* the d attributes a <path> may have, None when it has none
DAttributes ==
    {None,
     PathD(FALSE, RZero, <<>>),
     PathD(TRUE, RInt(10), <<Ring4>>),
     PathD(TRUE, Rat(501, 10), <<Ring3, Ring4, Ring4b>>),
     PathD(TRUE, Rat(201, 4), <<Ring4b, Ring3>>),
     PathD(TRUE, RInt(60), <<>>),
     PathDRaising(RZero)}

\* the ids a <path> may have: stage 1 gives way_<id>_path_<tag> to a stroke
\* outline and way_<id> to a polyline
PathIds(k) ==
    {<<"way", k, "path", BUNKER_TAG>>, <<"way", k, "path", "highway">>, <<"way", k>>}

\* the documents: up to MaxPaths <path> elements
Documents ==
    UNION {{[k \in 1..n |-> [id |-> ids[k], d |-> ds[k], data_fixed |-> None]] :
              ids \in {f \in [1..n -> UNION {PathIds(k) : k \in 1..n}] :
                          \A k \in 1..n : f[k] \in PathIds(k)},
              ds \in [1..n -> DAttributes]} : n \in 0..MaxPaths}

InitFix ==
    /\ stage = "fix"
    /\ pc = "loop"
    /\ input_svg \in Documents
    /\ tree = input_svg
    /\ path_index = 0
    /\ fixed_count = 0
    /\ printed = <<[line |-> "Starting analysis"]>>
    /\ stroke_in = Idle /\ path_d = Idle
    /\ way_list = Idle /\ svg_features = Idle
    /\ path_in = Idle /\ smoothed = Idle /\ resmoothed = Idle
    /\ ctl_in = Idle /\ ctl_out = Idle
    /\ IdleEmit /\ IdleClip
    /\ IdleSample /\ IdlePolylines

\* what one pass of the loop makes of the run, r being the outcome of its
\* body: an exception that leaves the body is caught by "except Exception"
\* of fix_bunker_paths, which prints it and calls sys.exit(1)
loop_pass(r) ==
    IF r.raised
    THEN [pc |-> "exited", path_index |-> path_index,
          printed |-> printed \o r.printed
                      \o <<[line |-> "An unexpected error occurred"]>>]
    ELSE [pc |-> "loop", path_index |-> path_index + 1,
          printed |-> printed \o r.printed]

\* one pass of "for path_elem in root.findall('.//svg:path', NS)"
FixPath ==
    /\ stage = "fix"
    /\ pc = "loop"
    /\ path_index < Len(tree)
    /\ tree' = [tree EXCEPT ![path_index + 1] = fix_path(tree[path_index + 1]).elem]
    /\ fixed_count' = fixed_count + fix_path(tree[path_index + 1]).fixed
    /\ printed' = loop_pass(fix_path(tree[path_index + 1])).printed
    /\ path_index' = loop_pass(fix_path(tree[path_index + 1])).path_index
    /\ pc' = loop_pass(fix_path(tree[path_index + 1])).pc
    /\ UNCHANGED <<stage, input_svg>>
    /\ UNCHANGED <<stroke_in, path_d, way_list, svg_features,
                   path_in, smoothed, resmoothed, ctl_in, ctl_out>>
    /\ UNCHANGED <<emitVars, clipVars, sampleVars, polylineVars>>

\* after the loop: the count is printed and the tree is written
WriteTree ==
    /\ stage = "fix"
    /\ pc = "loop"
    /\ path_index = Len(tree)
    /\ printed' = printed \o <<[line |-> "Processed and fixed",
                                fixed_count |-> fixed_count],
                               [line |-> "Successfully wrote fixed SVG"]>>
    /\ pc' = "written"
    /\ UNCHANGED <<stage, input_svg, tree, path_index, fixed_count>>
    /\ UNCHANGED <<stroke_in, path_d, way_list, svg_features,
                   path_in, smoothed, resmoothed, ctl_in, ctl_out>>
    /\ UNCHANGED <<emitVars, clipVars, sampleVars, polylineVars>>

NextFix == FixPath \/ WriteTree

SpecFix == InitFix /\ [][NextFix]_vars

-----------------------------------------------------------------------------
(* Claims about the outset correction, checked under SpecFix *)

\* the <path> elements visited so far that went through simplify_and_offset_path
Processed ==
    {k \in 1..path_index : is_bunker_id(input_svg[k].id) /\ input_svg[k].d # None}

\* the smallest whole number that is not below the rational x >= 0
Ceil(x) == CHOOSE n \in 0..(x[1] + 1) : n * x[2] >= x[1] /\ (n - 1) * x[2] < x[1]

\* C12: the number of samples used for a path of length L is
\* max(MIN_SAMPLES, ceil(L * SAMPLES_PER_UNIT_LENGTH)), also when
\* L * SAMPLES_PER_UNIT_LENGTH is not a whole number.  This is the claim as
\* stated; the code rounds down.
C12_SampleCountRoundsUp ==
    stage = "fix" =>
        \A i \in 1..Len(printed) :
            printed[i].line = "Path Length" =>
                LET up == Ceil(RMul(printed[i].path_length,
                                    RInt(SAMPLES_PER_UNIT_LENGTH)))
                IN  printed[i].num_samples = Max({MIN_SAMPLES, up})

\* the number a formatted coordinate stands for, in thousandths
Thousandths(f) ==
    (IF f.neg THEN -1 ELSE 1) * (f.whole * CLIPPER_SCALE_FACTOR + f.frac)

\* the path description d is the closed path through the vertices of ring
IsPathOfRing(d, ring) ==
    /\ DOMAIN d = {"cmds"}
    /\ Len(d.cmds) = Len(ring) + 1
    /\ d.cmds[Len(d.cmds)] = <<"Z">>
    /\ \A k \in 1..Len(ring) :
         /\ d.cmds[k][1] = (IF k = 1 THEN "M" ELSE "L")
         /\ Thousandths(d.cmds[k][2]) = ring[k][1]
         /\ Thousandths(d.cmds[k][3]) = ring[k][2]

\* C13: when the offsetting returns one or more rings, the new path is built
\* from the ring with the most vertices, the first such ring on a tie: M at
\* its first vertex, an L for each further vertex in ring order, then Z, and
\* nothing else.
C13_LargestRingChosen ==
    stage = "fix" =>
        \A k \in Processed :
            LET rings == input_svg[k].d.offset_polygons
            IN  (input_svg[k].d.parses /\ rings # <<>>) =>
                    \E i \in 1..Len(rings) :
                        /\ \A j \in 1..Len(rings) : Len(rings[j]) <= Len(rings[i])
                        /\ \A j \in 1..(i - 1) : Len(rings[j]) < Len(rings[i])
                        /\ IsPathOfRing(tree[k].d, rings[i])

\* the rings Ring3, Ring4, Ring4b came back: the path is the one of Ring4
C13_Witness ==
    /\ stage = "fix" /\ path_index >= 1
    /\ input_svg[1].id = <<"way", 1, "path", BUNKER_TAG>>
    /\ input_svg[1].d = PathD(TRUE, Rat(501, 10), <<Ring3, Ring4, Ring4b>>)
    /\ tree[1].d.cmds[1]
         = <<"M", [neg |-> TRUE, whole |-> 0, frac |-> 875],
                  [neg |-> TRUE, whole |-> 0, frac |-> 875]>>
    /\ tree[1].d.cmds[2]
         = <<"L", [neg |-> FALSE, whole |-> 10, frac |-> 875],
                  [neg |-> TRUE, whole |-> 0, frac |-> 875]>>
    /\ Len(tree[1].d.cmds) = 5

\* C14: when the offsetting returns no ring, simplify_and_offset_path returns
\* the path description it was given, and the d attribute of the feature
\* after fix_bunker_paths is the one it had before.
C14_NoRingKeepsPath ==
    stage = "fix" =>
        \A k \in Processed :
            (input_svg[k].d.parses /\ input_svg[k].d.offset_polygons = <<>>) =>
                /\ simplify_and_offset_path(input_svg[k].d).d = input_svg[k].d
                /\ tree[k].d = input_svg[k].d

C14_Witness ==
    /\ stage = "fix" /\ pc = "written"
    /\ Len(input_svg) = 2
    /\ input_svg[2].id = <<"way", 2, "path", BUNKER_TAG>>
    /\ input_svg[2].d = PathD(TRUE, RInt(60), <<>>)
    /\ tree[2].d = PathD(TRUE, RInt(60), <<>>)

\* the lines printed that name the feature path_id as left uncorrected
WarningsFor(path_id) ==
    {i \in 1..Len(printed) :
        /\ printed[i].line = "Warning: Failed to parse SVG path"
        /\ "path_id" \in DOMAIN printed[i]
        /\ printed[i].path_id = path_id}

\* C15: the features marked data-fixed="outset", and counted in fixed_count,
\* are exactly those whose geometry was replaced; every feature left
\* uncorrected has a warning that names it.  This is the claim as stated;
\* the code marks and counts every bunker path it visits.
C15_OnlyReplacedMarkedFixed ==
    stage = "fix" =>
        /\ \A k \in 1..path_index :
             tree[k].data_fixed = <<"outset">> => tree[k].d # input_svg[k].d
        /\ fixed_count = Cardinality({k \in 1..path_index :
                                        tree[k].d # input_svg[k].d})
        /\ \A k \in Processed :
             tree[k].d = input_svg[k].d => WarningsFor(input_svg[k].id) # {}

-----------------------------------------------------------------------------
(* osm2svg_v5.py: clip_overlapping_paths *)

(***************************************************************************)
(* Geometry.  The Shapely polygons of the model are strips: rectangles of  *)
(* height one lattice step whose corners lie on a lattice, in one of       *)
(* several rows that lie further apart than the clipping gap; a strip may  *)
(* carry further vertices on its lower edge.  One lattice step is the      *)
(* length CLIPPING_GAP_SIZE.  On strips the Shapely operations are exact:  *)
(* a region is the set of the lattice cells it covers, a cell being named  *)
(* by its lower left corner; a Polygon or MultiPolygon is the list of the  *)
(* vertex rings of its parts (without the repeated closing vertex).        *)
(***************************************************************************)

CLIPPING_GAP_SIZE == Rat(5, 100)

\* the tolerance of result.simplify(0.001)
simplify_tolerance == Rat(1, 1000)

\* the lattice coordinate of the lower edge of a row
RowY(row) == 3 * row

\* the elements of a finite set of integers in ascending order
RECURSIVE Ascending(_)
Ascending(S) ==
    IF S = {} THEN <<>>
    ELSE LET m == CHOOSE x \in S : \A y \in S : x <= y
         IN  <<m>> \o Ascending(S \ {m})

\* the ring of the strip from x1 to x2 in a row, with further vertices at
\* the positions extra of its lower edge
StripRing(row, x1, x2, extra) ==
    <<<<x1, RowY(row)>>>>
    \o [k \in 1..Len(Ascending(extra)) |-> <<Ascending(extra)[k], RowY(row)>>]
    \o <<<<x2, RowY(row)>>, <<x2, RowY(row) + 1>>, <<x1, RowY(row) + 1>>>>

\* Polygon(ring)
Polygon(ring) == [polygons |-> <<ring>>]

\* the cells a strip ring covers
cells_of_ring(ring) ==
    LET xs == {ring[k][1] : k \in 1..Len(ring)}
        ys == {ring[k][2] : k \in 1..Len(ring)}
    IN  {<<x, y>> : x \in {x \in Min(xs)..Max(xs) : x < Max(xs)},
                    y \in {y \in Min(ys)..Max(ys) : y < Max(ys)}}

\* the region of a Polygon or MultiPolygon
region(geometry) ==
    UNION {cells_of_ring(geometry.polygons[k]) : k \in 1..Len(geometry.polygons)}

\* unary_union(polygons): the region covered by any of them
unary_union(polygons) == UNION {region(polygons[k]) : k \in 1..Len(polygons)}

\* the number of lattice steps of a distance
lattice_steps(distance) == int(RDiv(distance, CLIPPING_GAP_SIZE))

buffer_by_nothing(cells, distance) == cells

\* geometry.buffer(distance): everything within the distance of the region;
\* of this, the part that lies in the rows
buffer(cells, distance) ==
    {<<c[1] + dx, c[2]>> :
        c \in cells, dx \in (-lattice_steps(distance))..lattice_steps(distance)}

\* the ring of the part from x1 to x2 of a strip polygon: the corners, and
\* the vertices of the polygon on the lower edge between them
part_ring(ring, x1, x2) ==
    LET y == Min({ring[k][2] : k \in 1..Len(ring)})
        kept == {ring[k][1] : k \in {j \in 1..Len(ring) :
                                        /\ ring[j][2] = y
                                        /\ ring[j][1] > x1 /\ ring[j][1] < x2}}
    IN  <<<<x1, y>>>> \o [k \in 1..Len(Ascending(kept)) |-> <<Ascending(kept)[k], y>>]
        \o <<<<x2, y>>, <<x2, y + 1>>, <<x1, y + 1>>>>

\* the x positions at which a part of the remaining cells begins
part_starts(cells) == {c[1] : c \in {d \in cells : <<d[1] - 1, d[2]>> \notin cells}}

\* the x position at which the part beginning at x1 ends
part_end(cells, x1) ==
    CHOOSE x2 \in {c[1] + 1 : c \in cells} :
        /\ x2 > x1
        /\ \A x \in x1..(x2 - 1) : \E c \in cells : c[1] = x
        /\ \A c \in cells : c[1] # x2

\* the parts left of a strip polygon, from left to right
parts_of(ring, cells, starts) ==
    [polygons |-> [k \in 1..Len(starts) |->
                      part_ring(ring, starts[k], part_end(cells, starts[k]))]]

\* current_poly.difference(cutter): what is left of the strip
difference(current_poly, cutter) ==
    parts_of(current_poly.polygons[1], region(current_poly) \ cutter,
             Ascending(part_starts(region(current_poly) \ cutter)))

\* geometry.is_empty
is_empty(geometry) == geometry.polygons = <<>>

\* twice the area of a ring, in lattice cells (the shoelace sum)
RECURSIVE shoelace(_, _)
shoelace(ring, k) ==
    IF k > Len(ring) THEN 0
    ELSE LET p == ring[k]
             q == ring[(k % Len(ring)) + 1]
         IN  p[1] * q[2] - q[1] * p[2] + shoelace(ring, k + 1)

RECURSIVE area_from(_, _)
area_from(polygons, k) ==
    IF k > Len(polygons) THEN RZero
    ELSE RAdd(Rat(Abs(shoelace(polygons[k], 1)), 2), area_from(polygons, k + 1))

\* geometry.area
area(geometry) == area_from(geometry.polygons, 1)

\* the square of the distance of the point p from the segment a-b
dist2_to_segment(p, a, b) ==
    LET t == (p[1] - a[1]) * (b[1] - a[1]) + (p[2] - a[2]) * (b[2] - a[2])
        cross == (b[1] - a[1]) * (p[2] - a[2]) - (b[2] - a[2]) * (p[1] - a[1])
    IN  IF Dist2(a, b) = 0 \/ t <= 0 THEN RInt(Dist2(p, a))
        ELSE IF t >= Dist2(a, b) THEN RInt(Dist2(p, b))
        ELSE Rat(cross * cross, Dist2(a, b))

\* the vertex between i and j that lies farthest from the segment i-j, the
\* first of them on a tie
farthest(points, i, j) ==
    CHOOSE k \in (i + 1)..(j - 1) :
        \A m \in (i + 1)..(j - 1) :
            \/ RLess(dist2_to_segment(points[m], points[i], points[j]),
                     dist2_to_segment(points[k], points[i], points[j]))
            \/ /\ dist2_to_segment(points[m], points[i], points[j])
                    = dist2_to_segment(points[k], points[i], points[j])
               /\ k <= m

\* Douglas-Peucker: the vertices kept between the kept vertices i and j
RECURSIVE douglas_peucker(_, _, _, _)
douglas_peucker(points, i, j, tolerance2) ==
    IF j <= i + 1 THEN {}
    ELSE IF RLess(tolerance2,
                  dist2_to_segment(points[farthest(points, i, j)],
                                   points[i], points[j]))
    THEN douglas_peucker(points, i, farthest(points, i, j), tolerance2)
         \cup {farthest(points, i, j)}
         \cup douglas_peucker(points, farthest(points, i, j), j, tolerance2)
    ELSE {}

\* the vertices of a ring picked by their indices, in ring order
pick(ring, indices) == [k \in 1..Len(indices) |-> ring[indices[k]]]

\* a ring simplified: its first vertex is kept, the ring being closed by it
simplify_ring(ring, tolerance2) ==
    pick(ring, Ascending({1} \cup douglas_peucker(ring \o <<ring[1]>>, 1,
                                                  Len(ring) + 1, tolerance2)))

\* geometry.simplify(tolerance), the tolerance taken in lattice steps
simplify(geometry, tolerance) ==
    [polygons |->
        [k \in 1..Len(geometry.polygons) |->
            simplify_ring(geometry.polygons[k],
                          RMul(RDiv(tolerance, CLIPPING_GAP_SIZE),
                               RDiv(tolerance, CLIPPING_GAP_SIZE)))]]

\* higher_priority_polygons = paths_list_2d[:i]  (i counted from 1 here)
higher_priority_polygons(paths, i) == SubSeq(paths, 1, i - 1)

\* steps 1 to 4 of the loop body: the result for the path at index i
clip_result(current_poly, cutters) ==
    IF cutters = <<>> THEN current_poly
    ELSE difference(current_poly, buffer(unary_union(cutters), CLIPPING_GAP_SIZE))

\* step 5: what is stored for a result
checked(result) ==
    IF ~is_empty(result) /\ RLess(RZero, area(result))
    THEN simplify(result, simplify_tolerance)
    ELSE None

insert_last(clipped, entry) == Append(clipped, entry)

\* clipped_polygons.insert(0, entry)
insert_first(clipped, entry) == <<entry>> \o clipped

\* the loop "for i in range(len(paths_list_2d) - 1, -1, -1)", from index i down
RECURSIVE clip_loop(_, _, _)
clip_loop(paths, i, clipped) ==
    IF i = 0 THEN clipped
    ELSE clip_loop(paths, i - 1,
                   insert_first(clipped,
                                checked(clip_result(paths[i],
                                                    higher_priority_polygons(paths, i)))))

clip_overlapping_paths(paths) == clip_loop(paths, Len(paths), <<>>)

-----------------------------------------------------------------------------
(* The clipping run: one call of clip_overlapping_paths *)

MaxPolys == 3

\* the polygons of the model: strips of the lower row and one of the upper
\* row; the third has a further vertex in the middle of its lower edge
Polygons ==
    {Polygon(StripRing(0, 0, 6, {})), Polygon(StripRing(0, 2, 4, {})),
     Polygon(StripRing(0, 0, 2, {1})), Polygon(StripRing(0, 4, 6, {})),
     Polygon(StripRing(0, 5, 6, {})), Polygon(StripRing(1, 0, 2, {}))}

InitClip ==
    /\ stage = "clip"
    /\ pc = "start"
    /\ paths_list_2d \in UNION {[1..n -> Polygons] : n \in 0..MaxPolys}
    /\ clipped_polygons = Idle
    /\ stroke_in = Idle /\ path_d = Idle
    /\ way_list = Idle /\ svg_features = Idle
    /\ path_in = Idle /\ smoothed = Idle /\ resmoothed = Idle
    /\ ctl_in = Idle /\ ctl_out = Idle
    /\ IdleEmit /\ IdleFix
    /\ IdleSample /\ IdlePolylines

\* clipped = clip_overlapping_paths(paths_list_2d)
ClipPaths ==
    /\ stage = "clip"
    /\ pc = "start"
    /\ clipped_polygons' = clip_overlapping_paths(paths_list_2d)
    /\ pc' = "done"
    /\ UNCHANGED <<stage, paths_list_2d>>
    /\ UNCHANGED <<stroke_in, path_d, way_list, svg_features,
                   path_in, smoothed, resmoothed, ctl_in, ctl_out>>
    /\ UNCHANGED <<emitVars, fixVars, sampleVars, polylineVars>>

NextClip == ClipPaths

SpecClip == InitClip /\ [][NextClip]_vars

-----------------------------------------------------------------------------
(* Claims about clip_overlapping_paths, checked under SpecClip *)

ClipDone == stage = "clip" /\ pc = "done"

\* C16: the feature of the highest priority is never modified: the entry
\* returned at the first position has the vertices of the first input
\* polygon.  This is the claim as stated; the code stores
\* result.simplify(0.001) for every feature, the first one included.
C16_FirstFeatureIdentical ==
    (ClipDone /\ paths_list_2d # <<>>) => clipped_polygons[1] = paths_list_2d[1]

\* the cells of the input polygons of higher priority than the one at i
HigherCells(i) == UNION {region(paths_list_2d[j]) : j \in 1..(i - 1)}

\* the cells that lie less than the clipping gap away from one of these:
\* in the same row, at most one lattice step (one gap) to the left or right
Margin(i) ==
    {c \in UNION {region(paths_list_2d[j]) : j \in 1..Len(paths_list_2d)} :
        \E h \in HigherCells(i) :
            h[2] = c[2] /\ h[1] - c[1] <= 1 /\ c[1] - h[1] <= 1}

\* what is left of the input region at i outside the higher ones and their margin
Remaining(i) == region(paths_list_2d[i]) \ (HigherCells(i) \cup Margin(i))

\* the region of the entry returned at i
ClippedRegion(i) ==
    IF clipped_polygons[i] = None THEN {} ELSE region(clipped_polygons[i])

C18_IdentityPreserved ==
    ClipDone =>
        /\ Len(clipped_polygons) = Len(paths_list_2d)
        /\ \A i \in 1..Len(paths_list_2d) :
             /\ clipped_polygons[i] = None <=> Remaining(i) = {}
             /\ ClippedRegion(i) \subseteq region(paths_list_2d[i])

\* the strip 5..6 below the strip 4..6 is dropped, the strip 0..6 below
\* both is kept in part
C18_Witness ==
    /\ ClipDone
    /\ paths_list_2d = <<Polygon(StripRing(0, 4, 6, {})), Polygon(StripRing(0, 5, 6, {})),
                         Polygon(StripRing(0, 0, 6, {}))>>
    /\ clipped_polygons = <<Polygon(StripRing(0, 4, 6, {})), None,
                            Polygon(StripRing(0, 0, 3, {}))>>


-----------------------------------------------------------------------------
(* Claims about the written output of main, checked under SpecMain *)

\* the features written, in the order of the file
Written == SubSeq(outputFile, 2, Len(outputFile) - 1)

\* the feature f was collected before the feature g: the ways in document
\* order, then the relations in document order
CollectedBefore(f, g) ==
    \/ f.id[1] = "way" /\ g.id[1] = "rel"
    \/ f.id[1] = g.id[1] /\ f.id[2] < g.id[2]

\* the number of features the document gives
CollectedCount ==
    Cardinality({k \in 1..Len(way_list) :
                   Styled(way_list[k]) /\ Len(way_coords(way_list[k].nd)) >= 2})
    + Cardinality({k \in 1..Len(relation_list) :
                     /\ is_multipolygon(relation_list[k])
                     /\ process_multipolygon_relation(way_list, relation_list[k]) # None})

\* C19: the collected features are written in ascending z-order, and
\* features of equal z-order in the order in which they were collected
\* (styled ways in document order, then multipolygon relations in document
\* order).
C19_WrittenInStableZOrder ==
    (stage = "main" /\ pc = "sorted") =>
        /\ Len(Written) = CollectedCount
        /\ \A i, j \in 1..Len(Written) :
             i < j => /\ Written[i].z <= Written[j].z
                      /\ Written[i].z = Written[j].z
                           => CollectedBefore(Written[i], Written[j])

\* a highway (z-order 2), a bunker (z-order 1) and a bunker relation
\* (z-order 1) were collected in this order: the bunker, the relation and then
\* the highway are written
C19_Witness ==
    /\ stage = "main" /\ pc = "sorted"
    /\ Len(way_list) = 2 /\ Len(relation_list) = 1
    /\ Len(Written) = 3
    /\ Written[1].id = <<"way", 2>>
    /\ Written[2].id = <<"rel", 1>>
    /\ Written[3].id = <<"way", 1, "path", "highway">>

\* the vertices of a written feature, in ten-thousandths
FeatureVertices(f) ==
    IF f.tag = "polyline" THEN {f.points[k] : k \in 1..Len(f.points)}
    ELSE {Vertex(f.d[k]) : k \in {m \in 1..Len(f.d) : "x" \in DOMAIN f.d[m]}}

\* the clearance gap in the unit of the written coordinates
WrittenGap == Fmt4(CLIPPING_GAP_SIZE)

\* C20: the collected features pass through overlap removal before they are
\* written: no written region overlaps one of higher priority and adjacent
\* regions are at least the clearance gap apart; so no vertex of a written
\* feature is nearer than the gap to a vertex of another written feature.
\* (The statement of the claim; main never calls clip_overlapping_paths.)
C20_OutputRegionsSeparated ==
    (stage = "main" /\ pc = "sorted") =>
        \A i, j \in 1..Len(Written) :
            i # j =>
                \A p \in FeatureVertices(Written[i]),
                   q \in FeatureVertices(Written[j]) :
                    Dist2(p, q) >= WrittenGap * WrittenGap

-----------------------------------------------------------------------------
(* Claims about missing geometry, the path grammar and the feature ids of
   main, checked under SpecMain *)

\* the features made from the relation with this id
FeaturesOfRelation(id) ==
    {i \in 1..Len(svg_features) : svg_features[i].id = <<"rel", id>>}

\* a way with a node reference that is not among the loaded nodes
MissingNode(way) == \E k \in 1..Len(way.nd) : way.nd[k] \notin DOMAIN nodes

\* a relation with a member way that is not among the loaded ways
MissingWay(relation) ==
    \E k \in 1..Len(relation.members) :
        /\ relation.members[k].type = "way"
        /\ relation.members[k].ref \notin 1..Len(way_list)

\* C22: a feature that references geometry absent from the input (a way with
\* a node reference not among the loaded nodes, a multipolygon relation with
\* a member way not among the loaded ways) is dropped as a whole: it has no
\* feature, not even a partial one.  (The statement of the claim; main skips
\* the missing node and draws the way through the nodes that are left, and
\* process_multipolygon_relation draws the relation from the members found.)
C22_MissingGeometryDropsFeature ==
    stage = "main" =>
        /\ \A i \in 1..Len(way_list) :
             MissingNode(way_list[i]) => FeaturesOfWay(way_list[i].id) = {}
        /\ pc = "sorted" =>
             \A i \in 1..Len(relation_list) :
                 MissingWay(relation_list[i])
                     => FeaturesOfRelation(relation_list[i].id) = {}

\* a command sequence of the path grammar, as convert_way_to_svg_path is to
\* give it: M and L each with a coordinate pair, every subpath closed by Z
HasPair(c) == "x" \in DOMAIN c /\ "y" \in DOMAIN c

PathGrammar(d) ==
    /\ d # <<>>
    /\ d[1].cmd = "M"
    /\ d[Len(d)].cmd = "Z"
    /\ \A k \in 1..Len(d) : d[k].cmd \in {"M", "L"} => HasPair(d[k])

\* C26: every non-empty string returned by convert_way_to_svg_path conforms
\* to the path grammar (one M with a coordinate pair, every L with a
\* coordinate pair, a final Z), also for a way with exactly one node; so does
\* the d of every relation feature, which joins such strings.  (The statement
\* of the claim; for one point the string is "M x y L  Z".)
C26_WayPathConformsToGrammar ==
    stage = "main" =>
        /\ \A k \in 1..Len(way_list) :
             pc # "ways" /\ convert_way_to_svg_path(way_list, k) # <<>>
                 => PathGrammar(convert_way_to_svg_path(way_list, k))
        /\ \A i \in 1..Len(svg_features) :
             svg_features[i].id[1] = "rel" => PathGrammar(svg_features[i].d)

\* the style key matched for the way or relation a feature was made from
MatchedKey(f) ==
    IF f.id[1] = "way" THEN find_style(way_list[f.id[2]].tags).feature_tag
    ELSE find_style(relation_list[f.id[2]].tags).feature_tag

\* C28: every feature whose matched style key is the bunker tag carries an id
\* in which fix_bunker_paths finds the tag, whichever form main emitted it
\* in.  (The statement of the claim; only the id of a stroke-to-path outline
\* holds the tag, a polyline is "way_<id>" and a relation "rel_<id>".)
C28_BunkerIdRecognised ==
    stage = "main" =>
        \A i \in 1..Len(svg_features) :
            MatchedKey(svg_features[i]) = BUNKER_TAG
                => is_bunker_id(svg_features[i].id)

-----------------------------------------------------------------------------
(* Claims about the endpoints of an open path and about the closed flag,
   checked under SpecSmooth *)

\* the path was smoothed as an open path of at least 3 nodes
OpenSmoothed ==
    /\ SmoothReturned
    /\ Len(InNodes) >= 3
    /\ ~is_closed_path(path_in.segs)

\* the call of get_auto_smooth_controls at the node k (1-based) of the path,
\* a node with a neighbour on either side
ControlsAt(k) ==
    get_auto_smooth_controls(InNodes[k - 1], InNodes[k], InNodes[k + 1],
                             SMOOTH_TIGHTNESS_FACTOR)

\* C23: on an open path of at least 3 nodes each endpoint handle comes from
\* the call at the endpoint's one neighbour: the start handle of the first
\* segment is the back handle at the second node, so that both control points
\* of the first segment coincide, and the end handle of the last segment is
\* P_N - (front handle at node N-1 - P_(N-1)).
C23_EndpointHandlesOneSided ==
    OpenSmoothed =>
        LET N == Len(InNodes)
        IN  /\ smoothed.segs[1].control1 = ControlsAt(2).C1
            /\ smoothed.segs[1].control2 = smoothed.segs[1].control1
            /\ smoothed.segs[N - 1].control2.base
                 = <<RSub(RInt(InNodes[N][1]),
                          RSub(ControlsAt(N - 1).C2.base[1], RInt(InNodes[N - 1][1]))),
                     RSub(RInt(InNodes[N][2]),
                          RSub(ControlsAt(N - 1).C2.base[2], RInt(InNodes[N - 1][2])))>>
            /\ smoothed.segs[N - 1].control2.len = ControlsAt(N - 1).C2.len
            /\ smoothed.segs[N - 1].control2.dir
                 = <<-ControlsAt(N - 1).C2.dir[1], -ControlsAt(N - 1).C2.dir[2]>>

\* the open path (0,0),(3,0),(3,4): the handles at (3,0) point along (-1,-1)
\* and (1,1) with lengths 1/2 and 2/3; the first segment has both control
\* points at the back handle, the last segment ends with the front handle
\* moved to (3,4) and turned round
C23_Witness ==
    /\ OpenSmoothed
    /\ path_in.segs = <<Line(<<0, 0>>, <<3, 0>>), Line(<<3, 0>>, <<3, 4>>)>>
    /\ smoothed.segs[1].control1
         = [base |-> RPoint(<<3, 0>>), dir |-> <<-1, -1>>, len |-> Rat(1, 2)]
    /\ smoothed.segs[1].control2 = smoothed.segs[1].control1
    /\ smoothed.segs[2].control2
         = [base |-> RPoint(<<3, 4>>), dir |-> <<-1, -1>>, len |-> Rat(2, 3)]

\* the distance from the start of the first segment to the end of the last
\* is less than 1e-6 drawing units
WithinTolerance(path) ==
    /\ path.segs # <<>>
    /\ RLess(RMul(RInt(Dist2(path.segs[1].start, path.segs[Len(path.segs)].end)),
                  RMul(path.step, path.step)),
             RInt(1))

\* C24: a path is smoothed as a closed path exactly when the end of its last
\* segment equals the start of its first segment within a tolerance of 1e-6
\* drawing units; two endpoints less than the tolerance apart give the cyclic
\* smoothing.  (The statement of the claim; apply_path_smoothing compares
\* the two points with ==.)
C24_ClosedWithinTolerance ==
    (stage = "smooth" /\ pc # "start") =>
        smoothed = smooth_path_segments(path_in.segs, WithinTolerance(path_in))

-----------------------------------------------------------------------------
(* A claim about collinear nodes, checked under SpecControls *)

\* the call was made for three nodes whose two segments have a length
NonzeroSegments ==
    /\ stage = "controls" /\ pc = "done"
    /\ ctl_in.P_prev # ctl_in.P_i
    /\ ctl_in.P_i # ctl_in.P_next

\* C30: for every three nodes whose two segments have nonzero length, also
\* exactly collinear ones (the next node straight ahead of or straight behind
\* the current one), get_auto_smooth_controls returns a pair of handles at
\* P_i minus and plus a unit tangent times the handle length.  (The
\* statement of the claim; straight ahead D is zero and D / abs(D) raises.)
C30_HandlesForNonzeroSegments ==
    NonzeroSegments =>
        /\ ctl_out.ok
        /\ ctl_out.C1.base = RPoint(ctl_in.P_i)
        /\ ctl_out.C2.base = RPoint(ctl_in.P_i)
        /\ ctl_out.C2.dir # <<0, 0>>
        /\ ctl_out.C1.dir = <<-ctl_out.C2.dir[1], -ctl_out.C2.dir[2]>>
        /\ ctl_out.C1.len
             = RMul(Rat(Sqrt(Dist2(ctl_in.P_prev, ctl_in.P_i)), 3),
                    tightness_used(ctl_in))
        /\ ctl_out.C2.len
             = RMul(Rat(Sqrt(Dist2(ctl_in.P_i, ctl_in.P_next)), 3),
                    tightness_used(ctl_in))

-----------------------------------------------------------------------------
(* Claims about failures and about the paths left alone, checked under
   SpecFix *)

\* C21: failures are isolated per feature: an error raised while one bunker
\* path is outset-corrected, also one raised by the offsetting primitive,
\* does not keep the remaining paths from being processed nor the output
\* file from being written; the run ends with every path visited and the
\* tree written.  (The statement of the claim; in fix_bunker_paths such an
\* error ends the run with sys.exit(1) before tree.write.)
C21_FailureIsolatedPerPath ==
    (stage = "fix" /\ pc # "loop") =>
        /\ pc = "written"
        /\ path_index = Len(tree)

\* C27: fix_bunker_paths changes only paths whose id contains the bunker tag:
\* every other path element has the d attribute and all other attributes it
\* had before, and the elements are in the order they were in.
C27_OnlyBunkerPathsChanged ==
    stage = "fix" =>
        /\ Len(tree) = Len(input_svg)
        /\ \A k \in 1..Len(tree) :
             /\ tree[k].id = input_svg[k].id
             /\ ~is_bunker_id(input_svg[k].id) => tree[k] = input_svg[k]

\* a bunker path and a highway path with the same d attribute went through
\* the run: the bunker path has the new ring, the highway path what it had
C27_Witness ==
    /\ stage = "fix" /\ pc = "written"
    /\ Len(input_svg) = 2
    /\ input_svg[1].id = <<"way", 1, "path", BUNKER_TAG>>
    /\ input_svg[2].id = <<"way", 2, "path", "highway">>
    /\ input_svg[1].d = PathD(TRUE, RInt(10), <<Ring4>>)
    /\ input_svg[2].d = PathD(TRUE, RInt(10), <<Ring4>>)
    /\ IsPathOfRing(tree[1].d, Ring4)
    /\ tree[1].data_fixed = <<"outset">>
    /\ tree[2] = input_svg[2]

-----------------------------------------------------------------------------
(* fix_bunker_inset.py: simplify_and_offset_path, step 2, the sampling *)

\* (int(point.real * CLIPPER_SCALE_FACTOR), int(point.imag * CLIPPER_SCALE_FACTOR))
scaled(point) ==
    <<int(RMul(point[1], RInt(CLIPPER_SCALE_FACTOR))),
      int(RMul(point[2], RInt(CLIPPER_SCALE_FACTOR)))>>

is_new_always(sampled, p) == TRUE

\* if not sampled_points or (scaled_x, scaled_y) != sampled_points[-1]
is_new(sampled, p) == sampled = <<>> \/ p # sampled[Len(sampled)]

\* the loop "for t in t_values" from its pass k on, points[k] being
\* path_obj.point(t) of that pass
RECURSIVE sample_loop(_, _, _)
sample_loop(points, k, sampled) ==
    IF k > Len(points) THEN sampled
    ELSE sample_loop(points, k + 1,
                     IF is_new(sampled, scaled(points[k]))
                     THEN Append(sampled, scaled(points[k]))
                     ELSE sampled)

\* the points path_obj.point(t) may give: some of them less than 1 /
\* CLIPPER_SCALE_FACTOR apart, on either side of zero
SamplePoints ==
    {<<RZero, RZero>>, <<Rat(4, 10000), RZero>>, <<Rat(-5, 10000), RZero>>,
     <<Rat(1, 1000), RZero>>, <<Rat(19, 10000), Rat(1, 1000)>>}

\* the points of a parsed path at the t_values, in their order; the model
\* takes up to MaxSamples of them
InitSample ==
    /\ stage = "sample"
    /\ pc = "start"
    /\ path_obj \in UNION {[1..n -> SamplePoints] : n \in 0..MaxSamples}
    /\ sampled_points = <<>>
    /\ stroke_in = Idle /\ path_d = Idle
    /\ way_list = Idle /\ svg_features = Idle
    /\ path_in = Idle /\ smoothed = Idle /\ resmoothed = Idle
    /\ ctl_in = Idle /\ ctl_out = Idle
    /\ IdleEmit /\ IdleFix /\ IdleClip /\ IdlePolylines

\* step 2: the loop fills sampled_points, the ring given to pco.AddPath
SamplePath ==
    /\ stage = "sample"
    /\ pc = "start"
    /\ sampled_points' = sample_loop(path_obj, 1, <<>>)
    /\ pc' = "sampled"
    /\ UNCHANGED <<stage, path_obj, stroke_in, path_d, way_list, svg_features,
                   path_in, smoothed, resmoothed, ctl_in, ctl_out>>
    /\ UNCHANGED <<emitVars, fixVars, clipVars, polylineVars>>

NextSample == SamplePath

SpecSample == InitSample /\ [][NextSample]_vars

-----------------------------------------------------------------------------
(* A claim about the sampled ring, checked under SpecSample *)

-----------------------------------------------------------------------------
(* svg_points2path.py: convert_polylines_to_paths *)

(***************************************************************************)
(* An element of the tree is [tag, attrib, children]: attrib is the        *)
(* dictionary of its attributes, children the list of its child elements.  *)
(* The value of a points attribute is a list of tokens, " " for white      *)
(* space, and the empty list for the empty string.                         *)
(***************************************************************************)

Element(tag, attrib, children) ==
    [tag |-> tag, attrib |-> attrib, children |-> children]

\* the tag '{http://www.w3.org/2000/svg}polyline'
SVG_POLYLINE == "{http://www.w3.org/2000/svg}polyline"

\* points_data.strip()
RECURSIVE lstrip(_)
lstrip(tokens) ==
    IF tokens # <<>> /\ Head(tokens) = " " THEN lstrip(Tail(tokens)) ELSE tokens

RECURSIVE rstrip(_)
rstrip(tokens) ==
    IF tokens # <<>> /\ tokens[Len(tokens)] = " "
    THEN rstrip(SubSeq(tokens, 1, Len(tokens) - 1))
    ELSE tokens

strip(tokens) == rstrip(lstrip(tokens))

\* steps 2-5: the new <path> for a polyline, ET.Element('path') with the
\* attributes of the polyline other than points, and d = "M " + the points
new_path(polyline) ==
    Element("path",
            [name \in (DOMAIN polyline.attrib \ {"points"}) \cup {"d"} |->
                IF name = "d" THEN <<"M", " ">> \o strip(polyline.attrib["points"])
                ELSE polyline.attrib[name]],
            <<>>)

\* child.tag == '{http://www.w3.org/2000/svg}polyline' and
\* polyline.get('points') is neither None nor ''
has_points_data(child) ==
    /\ child.tag = SVG_POLYLINE
    /\ "points" \in DOMAIN child.attrib
    /\ child.attrib["points"] # <<>>

\* the entries the loop over the children of one parent appends
replacements_of(parent, at) ==
    LET found == SelectSeq([i \in 1..Len(parent.children) |-> i],
                           LAMBDA i : has_points_data(parent.children[i]))
    IN  [k \in 1..Len(found) |->
            [parent |-> at, index |-> found[k],
             new_path |-> new_path(parent.children[found[k]])]]

\* "for parent in root.iter()": the entries of the element at the place at
\* (the list of child indices that leads to it), then those of the elements
\* below its children from the k-th on, in document order
RECURSIVE replacements_from(_, _, _)
replacements_from(elem, at, k) ==
    IF k > Len(elem.children) THEN <<>>
    ELSE replacements_of(elem.children[k], Append(at, k))
         \o replacements_from(elem.children[k], Append(at, k), 1)
         \o replacements_from(elem, at, k + 1)

replacements(tree_root) ==
    replacements_of(tree_root, <<>>) \o replacements_from(tree_root, <<>>, 1)

\* parent.insert(index, new_path)
insert(children, index, new_elem) ==
    SubSeq(children, 1, index - 1) \o <<new_elem>>
    \o SubSeq(children, index, Len(children))

old_index_unshifted(index) == index

\* the old polyline is now at index + 1
old_index(index) == index + 1

\* del parent[index]
delete(children, index) ==
    SubSeq(children, 1, index - 1) \o SubSeq(children, index + 1, Len(children))

\* one replacement, made in the element found from elem along the place at
RECURSIVE replace_in(_, _, _)
replace_in(elem, at, entry) ==
    IF at = <<>>
    THEN [elem EXCEPT !.children =
              delete(insert(elem.children, entry.index, entry.new_path),
                     old_index(entry.index))]
    ELSE [elem EXCEPT !.children[Head(at)] =
              replace_in(elem.children[Head(at)], Tail(at), entry)]

\* step 7: "for parent, index, new_path in reversed(replacements)", the
\* entries k, k - 1, ..., 1
RECURSIVE replace_reversed(_, _, _)
replace_reversed(tree_root, entries, k) ==
    IF k = 0 THEN tree_root
    ELSE replace_reversed(replace_in(tree_root, entries[k].parent, entries[k]),
                          entries, k - 1)

\* convert_polylines_to_paths: the tree that is written to the string
convert_polylines_to_paths(tree_root) ==
    replace_reversed(tree_root, replacements(tree_root),
                     Len(replacements(tree_root)))

-----------------------------------------------------------------------------
(* The conversion run: convert_polylines_to_paths on a document *)

\* a polyline as stage 1 writes it, a polyline with an empty points
\* attribute, a polyline without one, and another element
PolylineWithPoints ==
    Element(SVG_POLYLINE,
            [name \in {"points", "stroke", "id"} |->
                IF name = "points" THEN <<" ", "0.0000 0.0000 30.0000 0.0000", " ">>
                ELSE IF name = "stroke" THEN "#FCA328" ELSE "way_1"],
            <<>>)

PolylineEmptyPoints ==
    Element(SVG_POLYLINE,
            [name \in {"points", "id"} |-> IF name = "points" THEN <<>> ELSE "way_2"],
            <<>>)

PolylineNoPoints ==
    Element(SVG_POLYLINE, [name \in {"id"} |-> "way_3"], <<>>)

Rect == Element("{http://www.w3.org/2000/svg}rect", [name \in {"id"} |-> "r"], <<>>)

\* a polyline with a child element
PolylineWithTitle ==
    Element(SVG_POLYLINE,
            PolylineWithPoints.attrib,
            <<Element("{http://www.w3.org/2000/svg}title", <<>>, <<>>)>>)

\* a group of up to MaxNested elements
Groups ==
    UNION {{Element("{http://www.w3.org/2000/svg}g", <<>>, children) :
              children \in [1..n -> {PolylineWithPoints, Rect}]} : n \in 0..MaxNested}

Elements ==
    {PolylineWithPoints, PolylineEmptyPoints, PolylineNoPoints, Rect,
     PolylineWithTitle} \cup Groups

\* the documents: an <svg> with up to MaxChildren child elements
Trees ==
    UNION {{Element("{http://www.w3.org/2000/svg}svg", <<>>, children) :
              children \in [1..n -> Elements]} : n \in 0..MaxChildren}

InitPolylines ==
    /\ stage = "polylines"
    /\ pc = "start"
    /\ root \in Trees
    /\ converted = Idle
    /\ stroke_in = Idle /\ path_d = Idle
    /\ way_list = Idle /\ svg_features = Idle
    /\ path_in = Idle /\ smoothed = Idle /\ resmoothed = Idle
    /\ ctl_in = Idle /\ ctl_out = Idle
    /\ IdleEmit /\ IdleFix /\ IdleClip /\ IdleSample

\* modified_svg_content = convert_polylines_to_paths(INPUT_FILE)
ConvertPolylines ==
    /\ stage = "polylines"
    /\ pc = "start"
    /\ converted' = convert_polylines_to_paths(root)
    /\ pc' = "converted"
    /\ UNCHANGED <<stage, root, stroke_in, path_d, way_list, svg_features,
                   path_in, smoothed, resmoothed, ctl_in, ctl_out>>
    /\ UNCHANGED <<emitVars, fixVars, clipVars, sampleVars>>

NextPolylines == ConvertPolylines

SpecPolylines == InitPolylines /\ [][NextPolylines]_vars

-----------------------------------------------------------------------------
(* Claims about convert_polylines_to_paths, checked under SpecPolylines *)

\* the elements that have children in the document: the places of the root
\* and of its children
Parents == {<<>>} \cup {<<k>> : k \in 1..Len(root.children)}

ElementAt(tree_root, at) ==
    IF at = <<>> THEN tree_root ELSE tree_root.children[at[1]]

\* new is a path that carries every attribute of the polyline old except
\* points
CarriesAttributes(old, new) ==
    /\ new.tag = "path"
    /\ \A name \in DOMAIN old.attrib \ {"points"} :
         name \in DOMAIN new.attrib /\ new.attrib[name] = old.attrib[name]
    /\ "points" \notin DOMAIN new.attrib

Converted(elem) ==
    IF has_points_data(elem) THEN new_path(elem)
    ELSE [elem EXCEPT !.children =
              [k \in 1..Len(elem.children) |->
                  IF has_points_data(elem.children[k])
                  THEN new_path(elem.children[k])
                  ELSE elem.children[k]]]

====
